---------------------------- MODULE Spec2Model ----------------------------
(***************************************************************************)
(* A model of the parts of the Open3D tensor core and its utilities:       *)
(*   - the per-thread current CUDA stream (core/CUDAUtils.cpp) and its      *)
(*     scoped override (CUDAScopedStream, used by the CUDAState tests);     *)
(*   - the fixed-radius nearest-neighbour index                            *)
(*     (core/nns/FixedRadiusIndex.cpp, FixedRadiusIndex.h);                 *)
(*   - the CPU launcher's ParallelFor (core/kernel/CPULauncher.h) and the   *)
(*     workers of an elementwise launch;                                   *)
(*   - the CUDA device queries (core/CUDAUtils.cpp);                        *)
(*   - the CPU elementwise kernels CopyCPU, UnaryEWCPU and BinaryEWCPU;     *)
(*   - the logger and the console progress bar (utility/Logging.cpp);       *)
(*   - the point cloud readers (t/io/PointCloudIO.cpp).                     *)
(* The parts share no state, so each has its own next-state relation and   *)
(* specification over the one set of variables.                            *)
(***************************************************************************)
EXTENDS Integers, Sequences, FiniteSets, TLC

VARIABLES
    stream_,      \* [Threads -> Streams]: CUDAStream::stream_ of each host thread's thread_local instance
    scoped,       \* [Threads -> Seq(scope record)]: the live CUDAScopedStream objects of each thread, innermost last
    cur_device,   \* [Threads -> Devices]: the CUDA runtime's current device of each host thread
    has_set,      \* [Threads -> BOOLEAN]: history, the thread has called SetStream (directly or through a scope)
    last_op,      \* history: the last stream operation performed and the thread that performed it
    dataset_points_,         \* NNSIndex::dataset_points_: the dataset tensor, NullTensor before SetTensorData
    points_row_splits_,      \* FixedRadiusIndex::points_row_splits_ (std::vector<int64_t>)
    hash_table_splits_,      \* FixedRadiusIndex::hash_table_splits_ (std::vector<int64_t>)
    hash_table_cell_splits_, \* FixedRadiusIndex::hash_table_cell_splits_ (Tensor)
    hash_table_index_,       \* FixedRadiusIndex::hash_table_index_ (Tensor)
    built,                   \* history: a SetTensorData call on the index has returned true
    last_call,               \* history: the last call on the index, its arguments, outcome, result and kernel invocations
    pf_pc,        \* position of the thread that calls ParallelFor: "idle", "forked" (inside the parallel region) or "returned"
    pf_call,      \* the ParallelFor call in progress or last returned: overload, n, grain_size, EstimateMaxThreads()
    pf_team,      \* number of threads of the team that executes the loop; member 1 is the invoking thread
    cu_build,     \* the build configuration of the library: which of BUILD_CUDA_MODULE and BUILD_CACHED_CUDA_MANAGER are defined
    cu_state,     \* the machine: whether CUDAState::GetInstance() throws, and the number of CUDA devices it finds
    cu_cache,     \* number of memory blocks the CachedMemoryManager holds in its cache
    verbosity_level_, \* Logger::Impl::verbosity_level_
    cu_last,      \* history: the last device query call, how it ended, what it returned, whether it printed a warning
    ew_lhs,       \* the src of a CopyCPU or UnaryEWCPU call, the lhs of a BinaryEWCPU call
    ew_rhs,       \* the rhs of a BinaryEWCPU call, NoTensor for a call with one input
    ew_dst,       \* the dst tensor of the call
    ht_sizing,    \* the sizes FixedRadiusIndex::SetTensorData derives from a dataset of num_dataset_points points; computed tells whether hash_table_size has been assigned
    print_fcn_,   \* Logger::Impl::print_fcn_: the console print function or one installed by SetPrintFunction
    lg_platform,  \* the platform the library is compiled for: which of _WIN32 and _MSC_VER are defined
    lg_last,      \* history: the last Logger::VError call, its arguments, whether it threw or returned, and the exception's what()
    wk_pc,        \* where an elementwise launch stands: "idle", "forked" (its team is running the workloads) or "joined"
    wk_call,      \* history: the launch, its views of dst and of the inputs, its team and the buffer before it
    wk_mem,       \* the buffer the views of the launch point into, by element address
    wk_threads,   \* per team member: the workloads [next, hi) it still has to run, whether it has loaded the inputs of workload next, and the values it loaded
    wk_reads,     \* history: who read which address for which workload
    wk_writes,    \* history: who wrote which address for which workload
    pb_bar,       \* the ConsoleProgressBar: resolution_, expected_count_, current_count_, progress_info_, progress_pixel_, active_
    pb_last,      \* history: the last call on the bar, what it printed and the divisions by expected_count_ it evaluated
    io_pointcloud, \* the t::geometry::PointCloud a caller passes to ReadPointCloud: the reader that filled it and the dtype of its points
    io_last,      \* history: the last ReadPointCloud or CreatePointCloudFromFile call, its arguments, the format it resolved, the readers it ran and how it ended
    ew_call,      \* history: the kernel call made, how it ended, the path it took, its launches and dst after it
    pf_chunks     \* the loop's iterations as the schedule assigned them: chunks [lo, hi) with their owner and the next index the owner will pass to func

stream_vars == <<stream_, scoped, cur_device, has_set, last_op>>

index_fields == <<dataset_points_, points_row_splits_, hash_table_splits_,
                  hash_table_cell_splits_, hash_table_index_>>

index_vars == <<index_fields, built, last_call>>

pf_vars == <<pf_pc, pf_call, pf_team, pf_chunks>>

cu_vars == <<cu_build, cu_state, cu_cache, verbosity_level_, cu_last>>

\* The variables of the parts other than the stream, the index and the
\* parallel loop.
ew_vars == <<ew_lhs, ew_rhs, ew_dst, ew_call>>

ht_vars == <<ht_sizing>>

lg_vars == <<print_fcn_, lg_platform, lg_last>>

\* The variables of the parts added after the kernels.
io_vars == <<io_pointcloud, io_last>>

wk_vars == <<wk_pc, wk_call, wk_mem, wk_threads, wk_reads, wk_writes>>

pb_vars == <<pb_bar, pb_last>>

rest_vars == <<lg_vars, io_vars, wk_vars, pb_vars>>

more_vars == <<cu_vars, ew_vars, ht_vars, rest_vars>>

vars == <<stream_vars, index_vars, pf_vars, more_vars>>

(***************************************************************************)
(* Bounds of the model.                                                    *)
(***************************************************************************)
\* Host threads, and the nesting depth of scoped stream overrides per thread.
NumThreads == 2
MaxDepth == 2

Threads == 1..NumThreads

\* The CUDA device ordinals of the machine.
Devices == {0, 1}

(***************************************************************************)
(* core/CUDAUtils.cpp: class CUDAStream and cuda::GetStream / SetStream.   *)
(***************************************************************************)
\* CUDAStream::Default(): static_cast<cudaStream_t>(0).
CUDAStream_Default == 0

\* The stream handles a thread can hold: the default stream and one made
\* by cudaStreamCreate, as in CheckScopedStream.
Streams == {CUDAStream_Default, 1}

\* cuda::GetDefaultStream().
GetDefaultStream == CUDAStream_Default

\* A bug: one process-wide instance instead of a thread_local one.
CUDAStream_Set_ProcessWide(st, t, stream) == [u \in DOMAIN st |-> stream]

\* A bug: GetInstance() returns a copy, so the assignment is lost.
CUDAStream_Set_OnCopy(st, t, stream) == st

\* CUDAStream::GetInstance().Set(stream) in host thread t: the instance is
\* thread_local, so only t's stream_ is assigned.
CUDAStream_Set(st, t, stream) == [st EXCEPT ![t] = stream]

\* CUDAStream::GetInstance().Get() in host thread t.
CUDAStream_Get(st, t) == st[t]

\* cuda::GetStream() called by host thread t.
GetStream(t) == CUDAStream_Get(stream_, t)

\* cuda::GetDevice() called by host thread t (cudaGetDevice).
GetDevice(t) == cur_device[t]

\* The state after construction: every thread's thread_local CUDAStream is
\* constructed with stream_ = Default(), no scope is open.
StreamInit ==
    /\ stream_ = [t \in Threads |-> CUDAStream_Default]
    /\ scoped = [t \in Threads |-> <<>>]
    /\ cur_device = [t \in Threads |-> 0]
    /\ has_set = [t \in Threads |-> FALSE]
    /\ last_op = [op |-> "none", thread |-> 0]

\* cuda::SetStream(stream) called by host thread t. A thread calls it
\* directly only outside its scoped overrides; inside one, the scope object
\* is what sets the stream.
SetStream(t, stream) ==
    /\ scoped[t] = <<>>
    /\ stream_' = CUDAStream_Set(stream_, t, stream)
    /\ has_set' = [has_set EXCEPT ![t] = TRUE]
    /\ last_op' = [op |-> "SetStream", thread |-> t]
    /\ UNCHANGED <<scoped, cur_device, index_vars, pf_vars, more_vars>>

\* cuda::SetDevice(device_id) called by host thread t (cudaSetDevice).
SetDevice(t, device_id) ==
    /\ cur_device' = [cur_device EXCEPT ![t] = device_id]
    /\ last_op' = [op |-> "SetDevice", thread |-> t]
    /\ UNCHANGED <<stream_, scoped, has_set, index_vars, pf_vars, more_vars>>

\* CUDAScopedStream scoped_stream(stream) constructed by host thread t: it
\* saves the current stream and sets the new one.
CUDAScopedStream_Enter(t, stream) ==
    /\ Len(scoped[t]) < MaxDepth
    /\ scoped' = [scoped EXCEPT ![t] =
                    Append(@, [stream |-> stream, prev_stream_ |-> GetStream(t)])]
    /\ stream_' = CUDAStream_Set(stream_, t, stream)
    /\ has_set' = [has_set EXCEPT ![t] = TRUE]
    /\ last_op' = [op |-> "Enter", thread |-> t]
    /\ UNCHANGED <<cur_device, index_vars, pf_vars, more_vars>>

\* ~CUDAScopedStream() run by host thread t when the innermost scope ends:
\* it sets the saved stream back.
CUDAScopedStream_Exit(t) ==
    /\ scoped[t] # <<>>
    /\ stream_' = CUDAStream_Set(stream_, t, scoped[t][Len(scoped[t])].prev_stream_)
    /\ scoped' = [scoped EXCEPT ![t] = SubSeq(@, 1, Len(@) - 1)]
    /\ last_op' = [op |-> "Exit", thread |-> t]
    /\ UNCHANGED <<cur_device, has_set, index_vars, pf_vars, more_vars>>

\* Threads that only use scoped overrides (CheckScopedStream).
ScopedNext ==
    \/ \E t \in Threads, s \in Streams : CUDAScopedStream_Enter(t, s)
    \/ \E t \in Threads : CUDAScopedStream_Exit(t)
    \/ \E t \in Threads, d \in Devices : SetDevice(t, d)

\* Threads that also call cuda::SetStream directly.
StreamNext ==
    \/ \E t \in Threads, s \in Streams : SetStream(t, s)
    \/ \E t \in Threads, s \in Streams : CUDAScopedStream_Enter(t, s)
    \/ \E t \in Threads : CUDAScopedStream_Exit(t)

(***************************************************************************)
(* Tensors, as far as the nearest-neighbour index reads them: the device,  *)
(* the dtype, the shape and the rows of a point tensor.                    *)
(***************************************************************************)
\* Largest number of points of a tensor, scratch byte size a device
\* routine can ask for, and max_knn.
MaxPoints == 1
MaxScratch == 1
MaxKnn == 1

CPU0 == [type |-> "CPU", id |-> 0]
CUDA0 == [type |-> "CUDA", id |-> 0]
TensorDevices == {CPU0, CUDA0}

Dtypes == {"Float32", "Float64", "Int32"}

\* Point dimensions of the datasets and queries.
Dims == {1, 2}

\* A default-constructed Tensor, the value of dataset_points_ and of the
\* hash table tensors before the first SetTensorData.
NullTensor ==
    [device |-> [type |-> "none", id |-> 0], dtype |-> "Undefined",
     shape |-> <<0>>, data |-> <<>>, initialized |-> FALSE]

\* n points of dimension dim on the integer grid {0, 1, 2}.
MakePoints(n, dim, shift) ==
    [i \in 1..n |-> [j \in 1..dim |-> (shift + i * j) % 3]]

\* A contiguous tensor of shape (n, dim).
PointTensor(device, dtype, rows, dim) ==
    [device |-> device, dtype |-> dtype, shape |-> <<Len(rows), dim>>,
     data |-> rows, initialized |-> TRUE]

\* The dataset_points arguments of SetTensorData.
DatasetTensors ==
    { PointTensor(dev, dt, MakePoints(n, dim, 0), dim) :
        dev \in TensorDevices, dt \in Dtypes, n \in 0..MaxPoints, dim \in Dims }

\* The query_points arguments of the searches: (n, dim) tensors, and
\* tensors of rank 1.
QueryTensors ==
    { PointTensor(dev, dt, MakePoints(n, dim, 1), dim) :
        dev \in TensorDevices, dt \in Dtypes, n \in 0..MaxPoints, dim \in Dims }
    \cup
    { [device |-> dev, dtype |-> dt, shape |-> <<2>>, data |-> <<0, 1>>,
       initialized |-> TRUE] :
        dev \in TensorDevices, dt \in Dtypes }

\* The radius arguments.
Radii == {-1, 0, 1}

\* The scratch byte sizes a device routine can report.
ScratchSizes == 0..MaxScratch

\* Tensor::Empty(shape, dtype, device): allocated, contents not written.
Tensor_Empty(shape, dtype, device) ==
    [device |-> device, dtype |-> dtype, shape |-> shape, data |-> <<>>,
     initialized |-> FALSE]

\* Tensor::Contiguous() of a tensor that is contiguous already.
Contiguous(tensor) == tensor

\* NNSIndex::GetDevice / GetDtype / GetDatasetSize / GetDimension read
\* dataset_points_; on an index that holds no dataset they raise.
NNSIndex_HasDataset(dataset) == dataset # NullTensor

NNSIndex_GetDevice(dataset) == dataset.device

NNSIndex_GetDtype(dataset) == dataset.dtype

NNSIndex_GetDatasetSize(dataset) == dataset.shape[1]

NNSIndex_GetDimension(dataset) == dataset.shape[2]

\* DISPATCH_FLOAT_DTYPE_TO_TEMPLATE runs its body for Float32 and Float64
\* and raises for every other dtype.
DispatchFloatOk(dtype) == dtype \in {"Float32", "Float64"}

Min(a, b) == IF a <= b THEN a ELSE b

Max(a, b) == IF a >= b THEN a ELSE b

RECURSIVE Concat(_)
\* The concatenation of a sequence of sequences.
Concat(ss) == IF ss = <<>> THEN <<>> ELSE Head(ss) \o Concat(Tail(ss))

(***************************************************************************)
(* The device routines of core/nns/FixedRadiusSearch.h, by what they       *)
(* compute.                                                                *)
(***************************************************************************)
RECURSIVE SumSq(_, _, _)
SumSq(p, q, j) ==
    IF j = 0 THEN 0 ELSE (p[j] - q[j]) * (p[j] - q[j]) + SumSq(p, q, j - 1)

\* The distance the search kernels report for the L2 metric: the squared
\* Euclidean distance.
Distance(p, q) == SumSq(p, q, Len(p))

\* p lies within Euclidean distance radius of q.
InRadius(p, q, radius) == Distance(p, q) <= radius * radius

RECURSIVE CellSum(_, _, _)
CellSum(p, cell_size, j) ==
    IF j = 0 THEN 0 ELSE (p[j] \div cell_size) * (2 * j - 1) + CellSum(p, cell_size, j - 1)

\* The hash table cell of point p: the grid cell of edge 2 * radius that
\* holds p, hashed into 0..table_size-1.
SpatialHash(p, radius, table_size) == CellSum(p, 2 * radius, Len(p)) % table_size

\* A bug: hash_table_cell_splits holds the number of points of each cell,
\* not the position at which the cell starts.
BuildSpatialHashTable_CellCounts(points, radius, table_size) ==
    LET n == Len(points)
        cell(i) == SpatialHash(points[i], radius, table_size)
    IN  [hash_table_index |-> [k \in 1..n |-> k - 1],
         hash_table_cell_splits |->
            [c \in 1..(table_size + 1) |->
                Cardinality({i \in 1..n : cell(i) = c - 1})]]

\* BuildSpatialHashTableCUDA run with scratch memory: the dataset's point
\* indices (0-based) ordered by cell, and each cell's first position.
BuildSpatialHashTable(points, radius, table_size) ==
    LET n == Len(points)
        cell(i) == SpatialHash(points[i], radius, table_size)
        order == SortSeq([i \in 1..n |-> i],
                         LAMBDA a, b : cell(a) < cell(b) \/ (cell(a) = cell(b) /\ a < b))
    IN  [hash_table_index |-> [k \in 1..n |-> order[k] - 1],
         hash_table_cell_splits |->
            [c \in 1..(table_size + 1) |->
                Cardinality({i \in 1..n : cell(i) < c - 1})]]

\* A bug: every point of the dataset is reported, whatever its distance.
NeighborsOf_All(points, table_index, q, radius) ==
    [k \in 1..Len(table_index) |->
        [index |-> table_index[k], distance |-> Distance(points[table_index[k] + 1], q)]]

\* The neighbours of query q: the dataset's points within radius, in hash
\* table order, as (index, distance) pairs.
NeighborsOf(points, table_index, q, radius) ==
    LET hits == SelectSeq(table_index, LAMBDA j : InRadius(points[j + 1], q, radius))
    IN  [k \in 1..Len(hits) |->
            [index |-> hits[k], distance |-> Distance(points[hits[k] + 1], q)]]

\* FixedRadiusSearchCUDA run with scratch memory: the flat index and
\* distance arrays and the row splits.
FixedRadiusSearch(points, table_index, queries, radius) ==
    LET per == [i \in 1..Len(queries) |->
                    NeighborsOf(points, table_index, queries[i], radius)]
        flat == Concat(per)
        upto(i) == Len(Concat(SubSeq(per, 1, i)))
    IN  [neighbors_index |-> [k \in 1..Len(flat) |-> flat[k].index],
         neighbors_distance |-> [k \in 1..Len(flat) |-> flat[k].distance],
         neighbors_row_splits |-> [i \in 1..(Len(queries) + 1) |-> upto(i - 1)]]

\* The order SortPairs puts (index, distance) pairs in.
PairBefore(a, b) ==
    a.distance < b.distance \/ (a.distance = b.distance /\ a.index < b.index)

\* A bug: the distances of each segment are sorted and the indices are
\* left in the order they came in.
SortPairsRun_KeysOnly(row_splits, indices, distances) ==
    LET seg(i) == SortSeq([k \in 1..(row_splits[i + 1] - row_splits[i]) |->
                              distances[row_splits[i] + k]],
                          LAMBDA a, b : a < b)
    IN  [indices_sorted |-> indices,
         distances_sorted |-> Concat([i \in 1..(Len(row_splits) - 1) |-> seg(i)])]

\* SortPairs run with scratch memory: each row-split segment sorted by
\* ascending distance.
SortPairsRun(row_splits, indices, distances) ==
    LET seg(i) == SortSeq([k \in 1..(row_splits[i + 1] - row_splits[i]) |->
                              [index |-> indices[row_splits[i] + k],
                               distance |-> distances[row_splits[i] + k]]],
                          PairBefore)
        flat == Concat([i \in 1..(Len(row_splits) - 1) |-> seg(i)])
    IN  [indices_sorted |-> [k \in 1..Len(flat) |-> flat[k].index],
         distances_sorted |-> [k \in 1..Len(flat) |-> flat[k].distance]]

\* A bug: neighbour_counts reports every point within radius, beyond
\* max_knn.
HybridSearch_NoCap(points, table_index, queries, radius, max_knn) ==
    LET near(i) == SortSeq(NeighborsOf(points, table_index, queries[i], radius),
                           PairBefore)
        count(i) == Len(near(i))
    IN  [neighbors_index |->
            [i \in 1..Len(queries) |->
                [k \in 1..max_knn |-> IF k <= count(i) THEN near(i)[k].index ELSE -1]],
         neighbors_distance |->
            [i \in 1..Len(queries) |->
                [k \in 1..max_knn |-> IF k <= count(i) THEN near(i)[k].distance ELSE 0]],
         neighbour_counts |-> [i \in 1..Len(queries) |-> count(i)]]

\* HybridSearchCUDA: for every query the max_knn nearest of the points
\* within radius, padded with index -1 and distance 0, and their number.
HybridSearch(points, table_index, queries, radius, max_knn) ==
    LET near(i) == SortSeq(NeighborsOf(points, table_index, queries[i], radius),
                           PairBefore)
        count(i) == Min(Len(near(i)), max_knn)
    IN  [neighbors_index |->
            [i \in 1..Len(queries) |->
                [k \in 1..max_knn |-> IF k <= count(i) THEN near(i)[k].index ELSE -1]],
         neighbors_distance |->
            [i \in 1..Len(queries) |->
                [k \in 1..max_knn |-> IF k <= count(i) THEN near(i)[k].distance ELSE 0]],
         neighbour_counts |-> [i \in 1..Len(queries) |-> count(i)]]

(***************************************************************************)
(* core/nns/FixedRadiusIndex.h and FixedRadiusIndex.cpp, as compiled with  *)
(* BUILD_CUDA_MODULE defined; without it every call only raises.            *)
(***************************************************************************)
\* hash_table_size_factor = 1.0 / 32, by its denominator.
hash_table_size_factor_den == 32

max_hash_tabls_size == 33554432

\* A bug: the lower clamp std::max<int64_t>(..., 1) is missing.
HashTableSize_NoLowerClamp(num_dataset_points) ==
    Min(num_dataset_points \div hash_table_size_factor_den, max_hash_tabls_size)

\* std::min<int64_t>(std::max<int64_t>(hash_table_size_factor *
\* num_dataset_points, 1), max_hash_tabls_size): the product is truncated
\* to int64_t.
HashTableSize(num_dataset_points) ==
    Min(Max(num_dataset_points \div hash_table_size_factor_den, 1), max_hash_tabls_size)

\* The value of temp_ptr: nullptr, or the data pointer of a UInt8 tensor of
\* the given number of bytes.
NullPtr == [null |-> TRUE, bytes |-> 0]

ScratchBuffer(num_bytes) == [null |-> FALSE, bytes |-> num_bytes]

\* What a device routine leaves in temp_size: called with a null temp_ptr
\* it stores the scratch byte size it needs, otherwise it runs and leaves
\* temp_size alone.
ReportedSize(temp_ptr, temp_size, needed) ==
    IF temp_ptr.null THEN needed ELSE temp_size

\* One invocation of a device routine that takes scratch memory, with
\* temp_size as the routine leaves it.
KernelCall(fn, temp_ptr, temp_size, args) ==
    [fn |-> fn, temp_ptr |-> temp_ptr, temp_size |-> temp_size, args |-> args]

\* One invocation of a device routine that takes no scratch memory.
PlainKernelCall(fn, args) == [fn |-> fn, args |-> args]

NoResult == "none"

\* SetTensorData, the body of the dispatch: BuildSpatialHashTableCUDA to
\* determine temp_size, the scratch tensor, BuildSpatialHashTableCUDA again.
SetTensorData_BuildCalls(args, needed) ==
    LET temp_ptr == NullPtr
        temp_size == ReportedSize(temp_ptr, 0, needed)
        temp_tensor == ScratchBuffer(temp_size)
    IN  <<KernelCall("BuildSpatialHashTableCUDA", temp_ptr, temp_size, args),
          KernelCall("BuildSpatialHashTableCUDA", temp_tensor,
                     ReportedSize(temp_tensor, temp_size, needed), args)>>

\* SearchRadius, the search: FixedRadiusSearchCUDA to determine temp_size,
\* the scratch tensor, FixedRadiusSearchCUDA again.
SearchRadius_SearchCalls(args, needed) ==
    LET temp_ptr == NullPtr
        temp_size == ReportedSize(temp_ptr, 0, needed)
        temp_tensor == ScratchBuffer(temp_size)
    IN  <<KernelCall("FixedRadiusSearchCUDA", temp_ptr, temp_size, args),
          KernelCall("FixedRadiusSearchCUDA", temp_tensor,
                     ReportedSize(temp_tensor, temp_size, needed), args)>>

\* A bug: temp_ptr and temp_size are not reset before the sort, so the
\* first SortPairs call gets the scratch buffer of the search.
SearchRadius_SortCalls_NoReset(temp_ptr_in, temp_size_in, args, needed) ==
    LET temp_size == ReportedSize(temp_ptr_in, temp_size_in, needed)
        temp_tensor == ScratchBuffer(temp_size)
    IN  <<KernelCall("SortPairs", temp_ptr_in, temp_size, args),
          KernelCall("SortPairs", temp_tensor,
                     ReportedSize(temp_tensor, temp_size, needed), args)>>

\* SearchRadius, the sort branch: temp_ptr and temp_size are reset, then
\* SortPairs to determine temp_size, the scratch tensor, SortPairs again.
\* temp_ptr_in and temp_size_in are the values the search left.
SearchRadius_SortCalls(temp_ptr_in, temp_size_in, args, needed) ==
    LET temp_ptr == NullPtr
        temp_size == ReportedSize(temp_ptr, 0, needed)
        temp_tensor == ScratchBuffer(temp_size)
    IN  <<KernelCall("SortPairs", temp_ptr, temp_size, args),
          KernelCall("SortPairs", temp_tensor,
                     ReportedSize(temp_tensor, temp_size, needed), args)>>

\* SearchHybrid, the body of the dispatch: under the comment
\* "Determine temp_size." one HybridSearchCUDA call, with no temp_ptr and
\* no temp_size argument; no second call follows.
SearchHybrid_Calls(args) == <<PlainKernelCall("HybridSearchCUDA", args)>>

\* Tensor::AssertShapeCompatible({utility::nullopt, dim}) passes.
ShapeCompatible(shape, dim) == Len(shape) = 2 /\ shape[2] = dim

\* A bug: the device of the dataset is not checked.
SetTensorData_Check_NoDevice(dataset_points, radius) ==
    IF radius <= 0 THEN "radius should be positive." ELSE "ok"

\* A bug: the functions run their CUDA bodies in a build without the CUDA
\* module.
CudaModuleCheck_Ignored(build, fn) == "ok"

\* The #else branch of SetTensorData, SearchRadius and SearchHybrid, taken
\* when BUILD_CUDA_MODULE is not defined: the error raised, or "ok" in a
\* build with the CUDA module.
CudaModuleCheck(build, fn) ==
    IF build = "NoCUDA"
    THEN "FixedRadiusIndex::" \o fn \o " BUILD_CUDA_MODULE is OFF. Please compile Open3d with BUILD_CUDA_MODULE=ON."
    ELSE "ok"

\* SetTensorData, its two precondition checks: the error raised, or "ok".
SetTensorData_Check(dataset_points, radius) ==
    IF dataset_points.device.type # "CUDA"
    THEN "dataset_points should be GPU Tensor."
    ELSE IF radius <= 0 THEN "radius should be positive." ELSE "ok"

\* A bug: only the radius is validated before the kernels are reached.
SearchRadius_Check_RadiusOnly(dataset, query_points, radius) ==
    IF radius <= 0 THEN "radius should be positive." ELSE "ok"

\* A bug: the device of the query is not checked.
SearchRadius_Check_NoDevice(dataset, query_points, radius) ==
    IF ~NNSIndex_HasDataset(dataset) THEN "index has no dataset"
    ELSE IF query_points.dtype # NNSIndex_GetDtype(dataset) THEN "wrong dtype"
    ELSE IF ~ShapeCompatible(query_points.shape, NNSIndex_GetDimension(dataset))
    THEN "incompatible shape"
    ELSE IF radius <= 0 THEN "radius should be positive."
    ELSE IF ~DispatchFloatOk(NNSIndex_GetDtype(dataset)) THEN "Unsupported data type."
    ELSE "ok"

\* SearchRadius up to its first kernel invocation: the accessors of the
\* dataset, AssertDtype, AssertShapeCompatible, AssertDevice, the radius
\* check and the dtype dispatch. The error raised, or "ok".
SearchRadius_Check(dataset, query_points, radius) ==
    IF ~NNSIndex_HasDataset(dataset) THEN "index has no dataset"
    ELSE IF query_points.dtype # NNSIndex_GetDtype(dataset) THEN "wrong dtype"
    ELSE IF ~ShapeCompatible(query_points.shape, NNSIndex_GetDimension(dataset))
    THEN "incompatible shape"
    ELSE IF query_points.device # NNSIndex_GetDevice(dataset) THEN "wrong device"
    ELSE IF radius <= 0 THEN "radius should be positive."
    ELSE IF ~DispatchFloatOk(NNSIndex_GetDtype(dataset)) THEN "Unsupported data type."
    ELSE "ok"

\* SearchHybrid up to its kernel invocation, as in SearchRadius. The error
\* raised, or "ok".
SearchHybrid_Check(dataset, query_points, radius) ==
    IF ~NNSIndex_HasDataset(dataset) THEN "index has no dataset"
    ELSE IF query_points.dtype # NNSIndex_GetDtype(dataset) THEN "wrong dtype"
    ELSE IF ~ShapeCompatible(query_points.shape, NNSIndex_GetDimension(dataset))
    THEN "incompatible shape"
    ELSE IF query_points.device # NNSIndex_GetDevice(dataset) THEN "wrong device"
    ELSE IF radius <= 0 THEN "radius should be positive."
    ELSE IF ~DispatchFloatOk(NNSIndex_GetDtype(dataset)) THEN "Unsupported data type."
    ELSE "ok"

\* A bug: the contiguous query is assigned to the member dataset_points_
\* instead of the local query_points_.
SearchRadius_DatasetAfter_Member(dataset, queries) == queries

\* SearchRadius and SearchHybrid hold the contiguous query in the local
\* query_points_; the member dataset_points_ keeps its value.
SearchRadius_DatasetAfter(dataset, queries) == dataset

\* The state after FixedRadiusIndex(): every member default-constructed.
IndexInit ==
    /\ dataset_points_ = NullTensor
    /\ points_row_splits_ = <<>>
    /\ hash_table_splits_ = <<>>
    /\ hash_table_cell_splits_ = NullTensor
    /\ hash_table_index_ = NullTensor
    /\ built = FALSE
    /\ last_call = [fn |-> "FixedRadiusIndex", args |-> <<>>, outcome |-> "ok",
                    error |-> "", result |-> NoResult, kernel_calls |-> <<>>]

\* utility::LogError in a call: the call throws, nothing is returned.
Raised(fn, args, message) ==
    [fn |-> fn, args |-> args, outcome |-> "error", error |-> message,
     result |-> NoResult, kernel_calls |-> <<>>]

\* A call that returns.
Returned(fn, args, result, kernel_calls) ==
    [fn |-> fn, args |-> args, outcome |-> "ok", error |-> "",
     result |-> result, kernel_calls |-> kernel_calls]

\* FixedRadiusIndex::SetTensorData(dataset_points, radius), and with it the
\* constructor FixedRadiusIndex(dataset_points, radius). The build routine
\* asks for a scratch byte size of its own choosing.
SetTensorData(dataset_points, radius) ==
    LET args == [dataset_points |-> dataset_points, radius |-> radius]
        module == CudaModuleCheck(cu_build, "SetTensorData")
        check == IF module # "ok" THEN module
                 ELSE SetTensorData_Check(dataset_points, radius)
        dataset == Contiguous(dataset_points)
        device == NNSIndex_GetDevice(dataset)
        dtype == NNSIndex_GetDtype(dataset)
        num_dataset_points == NNSIndex_GetDatasetSize(dataset)
        hash_table_size == HashTableSize(num_dataset_points)
        index_empty == Tensor_Empty(<<num_dataset_points>>, "Int64", device)
        cell_splits_empty == Tensor_Empty(<<hash_table_size + 1>>, "Int64", device)
        table == BuildSpatialHashTable(dataset.data, radius, hash_table_size)
        kernel_args ==
            [num_points |-> num_dataset_points, points |-> dataset.data,
             radius |-> radius, points_row_splits |-> <<0, num_dataset_points>>,
             hash_table_splits |-> <<0, hash_table_size>>,
             hash_table_cell_splits_size |-> hash_table_size + 1]
    IN  IF check # "ok"
        THEN /\ last_call' = Raised("SetTensorData", args, check)
             /\ UNCHANGED <<index_fields, built, stream_vars, pf_vars, more_vars>>
        ELSE /\ UNCHANGED <<stream_vars, pf_vars, more_vars>>
             /\ dataset_points_' = dataset
             /\ points_row_splits_' = <<0, num_dataset_points>>
             /\ hash_table_splits_' = <<0, hash_table_size>>
             /\ IF DispatchFloatOk(dtype)
                THEN /\ hash_table_index_' =
                            [index_empty EXCEPT !.data = table.hash_table_index,
                                                !.initialized = TRUE]
                     /\ hash_table_cell_splits_' =
                            [cell_splits_empty EXCEPT !.data = table.hash_table_cell_splits,
                                                      !.initialized = TRUE]
                     /\ built' = TRUE
                     /\ \E needed \in ScratchSizes :
                            last_call' =
                                Returned("SetTensorData", args, TRUE,
                                         SetTensorData_BuildCalls(kernel_args, needed))
                ELSE /\ hash_table_index_' = index_empty
                     /\ hash_table_cell_splits_' = cell_splits_empty
                     /\ built' = built
                     /\ last_call' = Raised("SetTensorData", args, "Unsupported data type.")

\* FixedRadiusIndex::SearchRadius(query_points, radius, sort). The search
\* and the sort routine each ask for a scratch byte size of their choosing.
SearchRadius(query_points, radius, sort) ==
    LET args == [query_points |-> query_points, radius |-> radius, sort |-> sort]
        module == CudaModuleCheck(cu_build, "SearchRadius")
        check == IF module # "ok" THEN module
                 ELSE SearchRadius_Check(dataset_points_, query_points, radius)
        num_dataset_points == NNSIndex_GetDatasetSize(dataset_points_)
        queries == Contiguous(query_points)
        num_query_points == queries.shape[1]
        queries_row_splits == <<0, num_query_points>>
        kernel_args ==
            [num_points |-> num_dataset_points, points |-> dataset_points_.data,
             num_queries |-> num_query_points, queries |-> queries.data,
             radius |-> radius, points_row_splits |-> points_row_splits_,
             queries_row_splits |-> queries_row_splits,
             hash_table_splits |-> hash_table_splits_,
             hash_table_cell_splits_size |-> hash_table_cell_splits_.shape[1],
             hash_table_cell_splits |-> hash_table_cell_splits_.data,
             hash_table_index |-> hash_table_index_.data]
        search_calls(needed) == SearchRadius_SearchCalls(kernel_args, needed)
        unsorted == FixedRadiusSearch(dataset_points_.data, hash_table_index_.data,
                                      queries.data, radius)
        sort_args ==
            [num_indices |-> Len(unsorted.neighbors_index),
             num_segments |-> Len(unsorted.neighbors_row_splits) - 1,
             row_splits |-> unsorted.neighbors_row_splits,
             indices_unsorted |-> unsorted.neighbors_index,
             distances_unsorted |-> unsorted.neighbors_distance]
        sort_calls(needed, needed_sort) ==
            SearchRadius_SortCalls(search_calls(needed)[2].temp_ptr,
                                   search_calls(needed)[2].temp_size,
                                   sort_args, needed_sort)
        sorted == SortPairsRun(unsorted.neighbors_row_splits,
                               unsorted.neighbors_index, unsorted.neighbors_distance)
    IN  /\ dataset_points_' =
              IF check = "ok"
              THEN SearchRadius_DatasetAfter(dataset_points_, queries)
              ELSE dataset_points_
        /\ UNCHANGED <<points_row_splits_, hash_table_splits_,
                       hash_table_cell_splits_, hash_table_index_, built,
                       stream_vars, pf_vars, more_vars>>
        /\ IF check # "ok"
           THEN last_call' = Raised("SearchRadius", args, check)
           ELSE IF ~sort
           THEN \E needed \in ScratchSizes :
                   last_call' =
                       Returned("SearchRadius", args,
                                [neighbors_index |-> unsorted.neighbors_index,
                                 neighbors_distance |-> unsorted.neighbors_distance,
                                 neighbors_row_splits |-> unsorted.neighbors_row_splits],
                                search_calls(needed))
           ELSE \E needed \in ScratchSizes, needed_sort \in ScratchSizes :
                   last_call' =
                       Returned("SearchRadius", args,
                                [neighbors_index |-> sorted.indices_sorted,
                                 neighbors_distance |-> sorted.distances_sorted,
                                 neighbors_row_splits |-> unsorted.neighbors_row_splits],
                                search_calls(needed) \o sort_calls(needed, needed_sort))

\* FixedRadiusIndex::SearchHybrid(query_points, radius, max_knn).
SearchHybrid(query_points, radius, max_knn) ==
    LET args == [query_points |-> query_points, radius |-> radius, max_knn |-> max_knn]
        module == CudaModuleCheck(cu_build, "SearchHybrid")
        check == IF module # "ok" THEN module
                 ELSE SearchHybrid_Check(dataset_points_, query_points, radius)
        num_dataset_points == NNSIndex_GetDatasetSize(dataset_points_)
        queries == Contiguous(query_points)
        num_query_points == queries.shape[1]
        queries_row_splits == <<0, num_query_points>>
        kernel_args ==
            [num_points |-> num_dataset_points, points |-> dataset_points_.data,
             num_queries |-> num_query_points, queries |-> queries.data,
             radius |-> radius, max_knn |-> max_knn,
             points_row_splits |-> points_row_splits_,
             queries_row_splits |-> queries_row_splits,
             hash_table_splits |-> hash_table_splits_,
             hash_table_cell_splits_size |-> hash_table_cell_splits_.shape[1],
             hash_table_cell_splits |-> hash_table_cell_splits_.data,
             hash_table_index |-> hash_table_index_.data]
    IN  /\ dataset_points_' =
              IF check = "ok"
              THEN SearchRadius_DatasetAfter(dataset_points_, queries)
              ELSE dataset_points_
        /\ UNCHANGED <<points_row_splits_, hash_table_splits_,
                       hash_table_cell_splits_, hash_table_index_, built,
                       stream_vars, pf_vars, more_vars>>
        /\ last_call' =
              IF check # "ok" THEN Raised("SearchHybrid", args, check)
              ELSE Returned("SearchHybrid", args,
                            HybridSearch(dataset_points_.data, hash_table_index_.data,
                                         queries.data, radius, max_knn),
                            SearchHybrid_Calls(kernel_args))

\* The calls a user of one FixedRadiusIndex can make.
IndexNext ==
    \/ \E dataset_points \in DatasetTensors, radius \in Radii :
          SetTensorData(dataset_points, radius)
    \/ \E query_points \in QueryTensors, radius \in Radii, sort \in BOOLEAN :
          SearchRadius(query_points, radius, sort)
    \/ \E query_points \in QueryTensors, radius \in Radii, max_knn \in 1..MaxKnn :
          SearchHybrid(query_points, radius, max_knn)

\* A session on one index with points in the plane: the index is built
\* once, searched once with the radius it was built with, and a radius
\* search may be repeated with the same arguments and either sort flag.
MaxSessionPoints == 2
MaxSessionKnn == 2

\* The corners of the unit square: squared distances 0, 1 and 2.
SessionPoints == {<<0, 0>>, <<0, 1>>, <<1, 0>>, <<1, 1>>}

\* Float32 tensors of shape (n, 2) on the CUDA device.
SessionTensors ==
    UNION { { PointTensor(CUDA0, "Float32", rows, 2) :
                rows \in [1..n -> SessionPoints] } : n \in 0..MaxSessionPoints }

SessionRadii == {1, 2}

SessionNext ==
    \/ /\ last_call.fn = "FixedRadiusIndex"
       /\ \E dataset_points \in SessionTensors, radius \in SessionRadii :
              SetTensorData(dataset_points, radius)
    \/ /\ last_call.fn = "SetTensorData"
       /\ \E query_points \in SessionTensors, sort \in BOOLEAN :
              SearchRadius(query_points, last_call.args.radius, sort)
    \/ /\ last_call.fn = "SetTensorData"
       /\ \E query_points \in SessionTensors, max_knn \in 1..MaxSessionKnn :
              SearchHybrid(query_points, last_call.args.radius, max_knn)
    \/ /\ last_call.fn = "SearchRadius"
       /\ ~last_call.args.sort
       /\ \E sort \in BOOLEAN :
              SearchRadius(last_call.args.query_points, last_call.args.radius, sort)

(***************************************************************************)
(* core/kernel/CPULauncher.h: cpu_launcher::ParallelFor, and the unary     *)
(* elementwise launcher that calls it.                                     *)
(***************************************************************************)
\* The largest value of utility::EstimateMaxThreads(), the largest n and the
\* largest grain_size of a direct ParallelFor call.
MaxThreads == 2
MaxN == 3
MaxGrain == 2

SMALL_OP_GRAIN_SIZE == 32767

\* The values of utility::EstimateMaxThreads().
Workers == 1..MaxThreads

\* The values of indexer.NumWorkloads() in LaunchUnaryEWKernel.
NumWorkloads == {0, 1, SMALL_OP_GRAIN_SIZE, SMALL_OP_GRAIN_SIZE + 1}

\* A bug: the loop runs while i <= n.
LoopIterations_Inclusive(n) == 0..n

\* for (int64_t i = 0; i < n; ++i): the values i takes.
LoopIterations(n) == 0..(n - 1)

\* A bug: the if clause is n >= grain_size.
IfClause_AtLeast(n, grain_size) == n >= grain_size

\* if (n > grain_size) of the omp parallel for.
IfClause(n, grain_size) == n > grain_size

\* The team sizes of an omp parallel region: the encountering thread alone
\* when the if clause does not hold; when it holds, num_threads is a
\* request, and the runtime forms a team of one thread (a nested region, a
\* thread limit of one, a build without OpenMP) up to num_threads threads.
TeamSizes(if_clause, num_threads) == IF if_clause THEN 1..num_threads ELSE {1}

\* schedule(static) without chunk size: the iterations are cut into one
\* contiguous chunk per team member, the first num_iterations % nthreads
\* members getting one iteration more.
StaticChunk(num_iterations, nthreads, t) ==
    LET q == num_iterations \div nthreads
        r == num_iterations % nthreads
        lo == IF t - 1 < r THEN (t - 1) * (q + 1) ELSE (t - 1) * q + r
        hi == IF t - 1 < r THEN lo + q + 1 ELSE lo + q
    IN  [lo |-> lo, hi |-> hi, owner |-> t, next |-> lo]

StaticSchedule(n, nthreads) ==
    [t \in 1..nthreads |-> StaticChunk(Cardinality(LoopIterations(n)), nthreads, t)]

\* No schedule clause: each iteration goes to the team member the runtime
\* chooses, owner[i] for iteration i.
AnySchedule(n, owner) ==
    [k \in 1..Cardinality(LoopIterations(n)) |->
        [lo |-> k - 1, hi |-> k, owner |-> owner[k - 1], next |-> k - 1]]

PFInit ==
    /\ pf_pc = "idle"
    /\ pf_call = [fn |-> "none", n |-> 0, grain_size |-> 0, max_threads |-> 1]
    /\ pf_team = 0
    /\ pf_chunks = <<>>

\* ParallelFor(n, func): the thread enters the parallel region.
ParallelFor(n, max_threads, team, owner) ==
    /\ pf_pc # "forked"
    /\ team \in TeamSizes(TRUE, max_threads)
    /\ owner \in [LoopIterations(n) -> 1..team]
    /\ pf_pc' = "forked"
    /\ pf_call' = [fn |-> "ParallelFor(n, func)", n |-> n, grain_size |-> 0,
                   max_threads |-> max_threads]
    /\ pf_team' = team
    /\ pf_chunks' = AnySchedule(n, owner)
    /\ UNCHANGED <<stream_vars, index_vars, more_vars>>

\* ParallelFor(n, grain_size, func): the thread enters the parallel region.
ParallelFor_grain_size(n, grain_size, max_threads) ==
    /\ pf_pc # "forked"
    /\ pf_pc' = "forked"
    /\ pf_call' = [fn |-> "ParallelFor(n, grain_size, func)", n |-> n,
                   grain_size |-> grain_size, max_threads |-> max_threads]
    /\ pf_team' \in TeamSizes(IfClause(n, grain_size), max_threads)
    /\ pf_chunks' = StaticSchedule(n, pf_team')
    /\ UNCHANGED <<stream_vars, index_vars, more_vars>>

\* LaunchUnaryEWKernel(indexer, func).
LaunchUnaryEWKernel(num_workloads, max_threads) ==
    /\ num_workloads >= 0
    /\ ParallelFor_grain_size(num_workloads, SMALL_OP_GRAIN_SIZE, max_threads)

\* Team member t runs func on the next iteration of its first unfinished
\* chunk: one call of func per step. The position next is counted exactly
\* over the first MaxN iterations of a chunk; from lo + MaxN on it stands
\* for every index up to hi - 2, so a call there leaves it in place, and
\* the call of func(hi - 1) moves it to hi.
ParallelFor_Run(t) ==
    /\ pf_pc = "forked"
    /\ t <= pf_team
    /\ \E c \in DOMAIN pf_chunks :
          /\ pf_chunks[c].owner = t
          /\ pf_chunks[c].next < pf_chunks[c].hi
          /\ \A b \in 1..(c - 1) :
                pf_chunks[b].owner = t => pf_chunks[b].next = pf_chunks[b].hi
          /\ IF \/ pf_chunks[c].next < pf_chunks[c].lo + MaxN
                \/ pf_chunks[c].next + 1 = pf_chunks[c].hi
                THEN pf_chunks' = [pf_chunks EXCEPT ![c].next = @ + 1]
                ELSE \E last \in BOOLEAN :
                        pf_chunks' =
                           [pf_chunks EXCEPT
                               ![c].next = IF last THEN pf_chunks[c].hi ELSE @]
    /\ UNCHANGED <<pf_pc, pf_call, pf_team, stream_vars, index_vars, more_vars>>

\* The barrier at the end of the parallel region: the invoking thread
\* returns from ParallelFor once every team member has finished its share.
ParallelFor_Join ==
    /\ pf_pc = "forked"
    /\ \A c \in DOMAIN pf_chunks : pf_chunks[c].next = pf_chunks[c].hi
    /\ pf_pc' = "returned"
    /\ UNCHANGED <<pf_call, pf_team, pf_chunks, stream_vars, index_vars, more_vars>>

PFNext ==
    \/ \E n \in -1..MaxN, max_threads \in Workers, team \in Workers :
          \E owner \in [LoopIterations(n) -> 1..team] :
             ParallelFor(n, max_threads, team, owner)
    \/ \E n \in -1..MaxN, grain_size \in 0..MaxGrain, max_threads \in Workers :
          ParallelFor_grain_size(n, grain_size, max_threads)
    \/ \E num_workloads \in NumWorkloads, max_threads \in Workers :
          LaunchUnaryEWKernel(num_workloads, max_threads)
    \/ \E t \in Workers : ParallelFor_Run(t)
    \/ ParallelFor_Join

(***************************************************************************)
(* core/CUDAUtils.cpp: the device query surface cuda::DeviceCount,         *)
(* cuda::IsAvailable, cuda::ReleaseCache and the C entry point             *)
(* open3d_core_cuda_device_count, in each build configuration.             *)
(***************************************************************************)
\* The largest number of CUDA devices and of cached memory blocks.
MaxDevices == 2
MaxCache == 1

\* Neither macro, BUILD_CUDA_MODULE alone, or both.
Builds == {"NoCUDA", "CUDA", "CUDACached"}

\* What CUDAState::GetInstance() meets on the machine.
CUDAStates == [throws : BOOLEAN, num_devices : 0..MaxDevices]

\* utility::VerbosityLevel, in increasing order.
VerbosityLevels == {"Error", "Warning", "Info", "Debug"}

NoValue == "none"

\* A call that returned value, and a call that let the exception what
\* escape.
CallOk(value) == [outcome |-> "ok", value |-> value]

CallThrows(what) == [outcome |-> what, value |-> NoValue]

\* CUDAState::GetInstance() followed by GetNumDevices(): the error is a
\* std::runtime_error, as every error that utility::LogError raises.
CUDAState_GetNumDevices(state) ==
    IF state.throws THEN CallThrows("std::runtime_error")
    ELSE CallOk(state.num_devices)

\* A bug: the exception of GetInstance() is not caught.
DeviceCount_NoCatch(build, state) ==
    IF build = "NoCUDA" THEN CallOk(0) ELSE CUDAState_GetNumDevices(state)

\* cuda::DeviceCount().
DeviceCount(build, state) ==
    IF build = "NoCUDA" THEN CallOk(0)
    ELSE LET r == CUDAState_GetNumDevices(state)
         IN  IF r.outcome = "std::runtime_error" THEN CallOk(0) ELSE r

\* cuda::IsAvailable().
IsAvailable(build, state) ==
    LET r == DeviceCount(build, state)
    IN  IF r.outcome = "ok" THEN CallOk(r.value > 0) ELSE r

\* Logger::VWarning prints when the verbosity level is Warning or above.
WarningPrinted(level) == level \in {"Warning", "Info", "Debug"}

\* The record of a device query call.
CudaCall(fn, r, warned) ==
    [fn |-> fn, outcome |-> r.outcome, value |-> r.value, warned |-> warned]

\* The build in which the streams and the index above live, before any call.
CudaInit ==
    /\ cu_build = "CUDA"
    /\ cu_state = [throws |-> FALSE, num_devices |-> MaxDevices]
    /\ cu_cache = 0
    /\ verbosity_level_ = "Info"
    /\ cu_last = [fn |-> "none", outcome |-> "ok", value |-> NoValue, warned |-> FALSE]

\* Any build on any machine, before any call.
CudaAnyInit ==
    /\ cu_build \in Builds
    /\ cu_state \in CUDAStates
    /\ cu_cache = 0
    /\ verbosity_level_ = "Info"
    /\ cu_last = [fn |-> "none", outcome |-> "ok", value |-> NoValue, warned |-> FALSE]

\* cuda::DeviceCount() is called.
Call_DeviceCount ==
    /\ cu_last' = CudaCall("DeviceCount", DeviceCount(cu_build, cu_state), FALSE)
    /\ UNCHANGED <<cu_build, cu_state, cu_cache, verbosity_level_,
                   stream_vars, index_vars, pf_vars, ew_vars, ht_vars, rest_vars>>

\* open3d_core_cuda_device_count() is called.
Call_open3d_core_cuda_device_count ==
    /\ cu_last' = CudaCall("open3d_core_cuda_device_count",
                           DeviceCount(cu_build, cu_state), FALSE)
    /\ UNCHANGED <<cu_build, cu_state, cu_cache, verbosity_level_,
                   stream_vars, index_vars, pf_vars, ew_vars, ht_vars, rest_vars>>

\* cuda::IsAvailable() is called.
Call_IsAvailable ==
    /\ cu_last' = CudaCall("IsAvailable", IsAvailable(cu_build, cu_state), FALSE)
    /\ UNCHANGED <<cu_build, cu_state, cu_cache, verbosity_level_,
                   stream_vars, index_vars, pf_vars, ew_vars, ht_vars, rest_vars>>

\* cuda::ReleaseCache() is called: CachedMemoryManager::ReleaseCache()
\* empties the cache in the build that has one, the other builds log a
\* warning.
Call_ReleaseCache ==
    /\ IF cu_build = "CUDACached"
       THEN /\ cu_cache' = 0
            /\ cu_last' = CudaCall("ReleaseCache", CallOk(NoValue), FALSE)
       ELSE /\ cu_cache' = cu_cache
            /\ cu_last' = CudaCall("ReleaseCache", CallOk(NoValue),
                                   WarningPrinted(verbosity_level_))
    /\ UNCHANGED <<cu_build, cu_state, verbosity_level_,
                   stream_vars, index_vars, pf_vars, ew_vars, ht_vars, rest_vars>>

\* Memory freed on a CUDA device goes to the cache of the
\* CachedMemoryManager.
CachedMemoryManager_Free ==
    /\ cu_build = "CUDACached"
    /\ ~cu_state.throws
    /\ cu_state.num_devices > 0
    /\ cu_cache < MaxCache
    /\ cu_cache' = cu_cache + 1
    /\ UNCHANGED <<cu_build, cu_state, verbosity_level_, cu_last,
                   stream_vars, index_vars, pf_vars, ew_vars, ht_vars, rest_vars>>

\* utility::SetVerbosityLevel(level).
SetVerbosityLevel(level) ==
    /\ verbosity_level_' = level
    /\ UNCHANGED <<cu_build, cu_state, cu_cache, cu_last,
                   stream_vars, index_vars, pf_vars, ew_vars, ht_vars, rest_vars>>

CudaNext ==
    \/ Call_DeviceCount
    \/ Call_open3d_core_cuda_device_count
    \/ Call_IsAvailable
    \/ Call_ReleaseCache
    \/ CachedMemoryManager_Free
    \/ \E level \in VerbosityLevels : SetVerbosityLevel(level)

(***************************************************************************)
(* core/kernel/UnaryEWCPU.cpp and BinaryEWCPU.cpp: the elementwise CPU     *)
(* kernels CopyCPU, UnaryEWCPU and BinaryEWCPU. A call is applied once to  *)
(* the tensors and the op code the initial state holds.                    *)
(*                                                                         *)
(* A tensor is its dtype, its shape, whether its memory is contiguous, and *)
(* its elements in row-major order of the shape. A Bool element is 0 or 1, *)
(* an integer element is its value, a floating point element is twice its  *)
(* value (so that 3 stands for 1.5), an element of the object dtype is the *)
(* sequence of its bytes.                                                  *)
(***************************************************************************)
\* The largest number of elements of a tensor in a call, and the largest
\* number of rows and of columns in a column-plus-row broadcast.
MaxElements == 2
MaxRows == 3
MaxCols == 4

EWDtypes == {"Bool", "Int32", "Int64", "Float32", "Float64", "Object"}

\* Dtype::IsObject().
Dtype_IsObject(dtype) == dtype = "Object"

\* Dtype::ByteSize(); the object dtype of the model has two bytes.
Dtype_ByteSize(dtype) ==
    CASE dtype = "Bool" -> 1
      [] dtype = "Int32" -> 4
      [] dtype = "Int64" -> 8
      [] dtype = "Float32" -> 4
      [] dtype = "Float64" -> 8
      [] dtype = "Object" -> 2

IsFloatDtype(dtype) == dtype \in {"Float32", "Float64"}

\* DISPATCH_DTYPE_TO_TEMPLATE(dtype, ...) finds a scalar_t for dtype.
DispatchOk(dtype) == dtype \in {"Int32", "Int64", "Float32", "Float64"}

\* DISPATCH_DTYPE_TO_TEMPLATE_WITH_BOOL(dtype, ...) finds a scalar_t for dtype.
DispatchWithBoolOk(dtype) == dtype = "Bool" \/ DispatchOk(dtype)

\* The elements the tensors of the model hold, by dtype.
EWValues(dtype) ==
    CASE dtype = "Bool" -> {0, 1}
      [] dtype = "Int32" -> {-1, 0, 2}
      [] dtype = "Int64" -> {0, 2}
      [] dtype = "Float32" -> {-3, 0, 1}
      [] dtype = "Float64" -> {0, 3}
      [] dtype = "Object" -> {<<1, 2>>, <<3, 4>>}

\* What dst holds before a call, by dtype.
StaleValue(dtype) == IF Dtype_IsObject(dtype) THEN <<7, 7>> ELSE 7

\* static_cast<bool>(x), as 0 or 1.
ToBool(v) == IF v # 0 THEN 1 ELSE 0

\* The integer part of h / 2, rounded towards zero.
TruncHalf(h) == IF h >= 0 THEN h \div 2 ELSE -((-h) \div 2)

\* A bug: the source element is reinterpreted, not converted.
Cast_Reinterpret(v, from, to) == v

\* static_cast<dst_t>(x) for x of type src_t, on the values of the model.
Cast(v, from, to) ==
    LET h == IF IsFloatDtype(from) THEN v ELSE 2 * v
    IN  IF to = "Bool" THEN ToBool(h)
        ELSE IF IsFloatDtype(to) THEN h
        ELSE TruncHalf(h)

RECURSIVE Product(_)
Product(shape) ==
    IF shape = <<>> THEN 1 ELSE shape[1] * Product(Tail(shape))

\* SizeVector::NumElements().
NumElements(shape) == Product(shape)

EWTensor(dtype, shape, contiguous, data) ==
    [dtype |-> dtype, shape |-> shape, contiguous |-> contiguous, data |-> data]

\* No tensor: the rhs of a call with one input.
NoTensor == EWTensor("None", <<0>>, TRUE, <<>>)

\* The shape as a (rows, columns) pair, as broadcasting aligns it.
Shape2(shape) ==
    IF Len(shape) = 0 THEN <<1, 1>>
    ELSE IF Len(shape) = 1 THEN <<1, shape[1]>>
    ELSE shape

\* shape_util::CanBeBrocastedToShape(in_shape, out_shape), which the
\* Indexer requires of every input.
CanBeBrocastedToShape(in_shape, out_shape) ==
    /\ Len(in_shape) <= Len(out_shape)
    /\ \A d \in 1..2 : Shape2(in_shape)[d] \in {1, Shape2(out_shape)[d]}

\* shape_util::BroadcastedShape(l_shape, r_shape) of compatible shapes.
BroadcastedShape(l_shape, r_shape) ==
    IF Len(l_shape) <= 1 /\ Len(r_shape) <= 1
    THEN <<Max(Shape2(l_shape)[2], Shape2(r_shape)[2])>>
    ELSE <<Max(Shape2(l_shape)[1], Shape2(r_shape)[1]),
           Max(Shape2(l_shape)[2], Shape2(r_shape)[2])>>

\* Indexer::NumWorkloads(): one workload per element of the output.
Indexer_NumWorkloads(output) == NumElements(output.shape)

\* Indexer::GetInputPtr(i, workload_idx): the position in the input of the
\* element that workload_idx reads; a dimension of extent 1 has stride 0.
Indexer_GetInputPtr(input, output, workload_idx) ==
    LET out == Shape2(output.shape)
        in == Shape2(input.shape)
        row == workload_idx \div out[2]
        col == workload_idx % out[2]
        in_row == IF in[1] = 1 THEN 0 ELSE row
        in_col == IF in[2] = 1 THEN 0 ELSE col
    IN  in_row * in[2] + in_col + 1

\* Indexer::Indexer(inputs, output, dtype_policy): the error it raises, or
\* "ok".
Indexer_Check(inputs, output, dtype_policy) ==
    IF \E k \in DOMAIN inputs :
          ~CanBeBrocastedToShape(inputs[k].shape, output.shape)
    THEN "Shape mismatch."
    ELSE IF /\ dtype_policy \in {"ALL_SAME", "INPUT_SAME_OUTPUT_BOOL"}
            /\ \E k \in DOMAIN inputs : inputs[k].dtype # inputs[1].dtype
    THEN "Dype mismatch between inputs."
    ELSE IF /\ dtype_policy = "ALL_SAME"
            /\ output.dtype # inputs[1].dtype
    THEN "Dype mismatch between input and output."
    ELSE IF /\ dtype_policy = "INPUT_SAME_OUTPUT_BOOL"
            /\ output.dtype # "Bool"
    THEN "Output dtype must be Bool."
    ELSE "ok"

\* One LaunchUnaryEWKernel or LaunchBinaryEWKernel: the element kernel and
\* the number of workloads ParallelFor runs it on.
Launch(kernel, num_workloads) == [kernel |-> kernel, num_workloads |-> num_workloads]

\* The outcome of a kernel call: how it ended, the path it took, the
\* DtypePolicy of its Indexer, its launches, and dst after it.
EWRaised(message, dst) ==
    [outcome |-> "error", error |-> message, path |-> "none", policy |-> "none",
     launches |-> <<>>, dst |-> dst]

EWReturned(path, policy, launches, dst) ==
    [outcome |-> "ok", error |-> "", path |-> path, policy |-> policy,
     launches |-> launches, dst |-> dst]

\* The elements of dst after LaunchUnaryEWKernel(indexer, kernel): workload
\* i writes kernel(element of src at GetInputPtr(0, i)) to output element i.
LaunchUnaryEW(kernel(_), src, dst) ==
    [w \in 1..Indexer_NumWorkloads(dst) |->
        kernel(src.data[Indexer_GetInputPtr(src, dst, w - 1)])]

\* A bug: the byte count of the copy is the number of elements.
Memcpy_NumBytes_Elements(dtype, shape) == NumElements(shape)

\* CopyCPU, the raw copy: src_dtype.ByteSize() * shape.NumElements() bytes.
Memcpy_NumBytes(dtype, shape) == Dtype_ByteSize(dtype) * NumElements(shape)

\* MemoryManager::Memcpy(dst, src, num_bytes) on memory that holds elements
\* of byte_size bytes: the elements that lie in the first num_bytes bytes
\* are those of src.
MemoryManager_Memcpy(dst_data, src_data, num_bytes, byte_size) ==
    [i \in 1..Len(dst_data) |->
        IF i * byte_size <= num_bytes THEN src_data[i] ELSE dst_data[i]]

\* memcpy(dst_bytes, src_bytes, object_byte_size) of CPUCopyObjectElementKernel.
CPUCopyObjectElementKernel(src_bytes, dst_bytes, object_byte_size) ==
    [b \in 1..Len(dst_bytes) |->
        IF b <= object_byte_size THEN src_bytes[b] ELSE dst_bytes[b]]

\* CPUCopyElementKernel<src_t, dst_t>.
CPUCopyElementKernel(v, src_t, dst_t) == Cast(v, src_t, dst_t)

\* CopyCPU, first branch: the raw copy is chosen.
CopyCPU_MemcpySelected(src, dst) ==
    /\ src.contiguous
    /\ dst.contiguous
    /\ src.shape = dst.shape
    /\ src.dtype = dst.dtype

\* A bug: the scalar fill is chosen for a source of the object dtype too.
CopyCPU_ScalarFillSelected_Object(src, dst) ==
    /\ NumElements(dst.shape) > 1
    /\ dst.contiguous
    /\ NumElements(src.shape) = 1

\* CopyCPU, second branch: the scalar fill is chosen.
CopyCPU_ScalarFillSelected(src, dst) ==
    /\ NumElements(dst.shape) > 1
    /\ dst.contiguous
    /\ NumElements(src.shape) = 1
    /\ ~Dtype_IsObject(src.dtype)

CopyCPU_Memcpy(src, dst) ==
    EWReturned("memcpy", "none", <<>>,
               [dst EXCEPT !.data =
                   MemoryManager_Memcpy(dst.data, src.data,
                                        Memcpy_NumBytes(src.dtype, src.shape),
                                        Dtype_ByteSize(src.dtype))])

\* A bug: the scalar is the element of src as it is, without src.To(dst_dtype).
CopyCPU_ScalarFill_NoCast(src, dst) ==
    IF ~DispatchWithBoolOk(dst.dtype) THEN EWRaised("Unsupported data type.", dst)
    ELSE EWReturned("scalar-fill", "none",
                    <<Launch("scalar-fill", NumElements(dst.shape))>>,
                    [dst EXCEPT !.data =
                        [w \in 1..NumElements(dst.shape) |-> src.data[1]]])

\* CopyCPU, the scalar fill: scalar_element = src.To(dst_dtype).Item(), then
\* ParallelFor writes it to each of the num_elements slots of dst.
CopyCPU_ScalarFill(src, dst) ==
    IF ~DispatchWithBoolOk(dst.dtype) THEN EWRaised("Unsupported data type.", dst)
    ELSE LET scalar_element == Cast(src.data[1], src.dtype, dst.dtype)
         IN  EWReturned("scalar-fill", "none",
                        <<Launch("scalar-fill", NumElements(dst.shape))>>,
                        [dst EXCEPT !.data =
                            [w \in 1..NumElements(dst.shape) |-> scalar_element]])

\* CopyCPU, the general path: an Indexer with DtypePolicy::NONE, then the
\* byte copy kernel for the object dtype and the typed copy kernel otherwise.
CopyCPU_General(src, dst) ==
    LET check == Indexer_Check(<<src>>, dst, "NONE")
        n == Indexer_NumWorkloads(dst)
        copy_object(w) ==
            CPUCopyObjectElementKernel(
                src.data[Indexer_GetInputPtr(src, dst, w - 1)], dst.data[w],
                Dtype_ByteSize(src.dtype))
        copy_element(v) == CPUCopyElementKernel(v, src.dtype, dst.dtype)
    IN  IF check # "ok" THEN EWRaised(check, dst)
        ELSE IF Dtype_IsObject(src.dtype)
        THEN EWReturned("general", "NONE",
                        <<Launch("CPUCopyObjectElementKernel", n)>>,
                        [dst EXCEPT !.data = [w \in 1..n |-> copy_object(w)]])
        ELSE IF ~DispatchWithBoolOk(src.dtype) \/ ~DispatchWithBoolOk(dst.dtype)
        THEN EWRaised("Unsupported data type.", dst)
        ELSE EWReturned("general", "NONE",
                        <<Launch("CPUCopyElementKernel", n)>>,
                        [dst EXCEPT !.data = LaunchUnaryEW(copy_element, src, dst)])

\* CopyCPU(src, dst).
CopyCPU(src, dst) ==
    IF CopyCPU_MemcpySelected(src, dst) THEN CopyCPU_Memcpy(src, dst)
    ELSE IF CopyCPU_ScalarFillSelected(src, dst) THEN CopyCPU_ScalarFill(src, dst)
    ELSE CopyCPU_General(src, dst)

UnaryEWOpCodes ==
    {"Sqrt", "Sin", "Cos", "Neg", "Exp", "Abs", "IsNan", "IsInf", "IsFinite",
     "Floor", "Ceil", "Round", "Trunc", "LogicalNot"}

\* A value of UnaryEWOpCode or BinaryEWOpCode that no case names.
UnknownOpCode == "Unknown"

\* A bug: every dtype passes.
AssertDtypeIsFloat_Always(dtype) == TRUE

\* assert_dtype_is_float(dtype) passes.
AssertDtypeIsFloat(dtype) == dtype \in {"Float32", "Float64"}

\* The result of a function of <cmath> that the arithmetic of the model
\* cannot express, as the application itself.
Applied(fn, args) == [fn |-> fn, args |-> args]

\* The element kernels of UnaryEWCPU on one element v of type scalar_t. No
\* element of the model is a NaN or an infinity.
CPUUnaryElementKernel(op_code, v, scalar_t, dst_t) ==
    LET h == IF IsFloatDtype(scalar_t) THEN v ELSE 2 * v
        whole(k) == IF IsFloatDtype(scalar_t) THEN 2 * k ELSE k
    IN  CASE op_code \in {"Sqrt", "Sin", "Cos", "Exp"} -> Applied(op_code, <<v>>)
          [] op_code = "Neg" -> -v
          [] op_code = "Abs" -> IF v < 0 THEN -v ELSE v
          [] op_code \in {"IsNan", "IsInf"} -> 0
          [] op_code = "IsFinite" -> 1
          [] op_code = "Floor" -> whole(h \div 2)
          [] op_code = "Ceil" -> whole(-((-h) \div 2))
          [] op_code = "Round" ->
                whole(IF h >= 0 THEN (h + 1) \div 2 ELSE -((1 - h) \div 2))
          [] op_code = "Trunc" -> whole(TruncHalf(h))
          [] op_code = "LogicalNot" -> Cast(1 - ToBool(v), "Bool", dst_t)

\* UnaryEWCPU(src, dst, op_code).
UnaryEWCPU(src, dst, op_code) ==
    LET src_dtype == src.dtype
        dst_dtype == dst.dtype
        n == Indexer_NumWorkloads(dst)
        kernel(v) == CPUUnaryElementKernel(op_code, v, src_dtype, dst_dtype)
        launch(policy) ==
            LET check == Indexer_Check(<<src>>, dst, policy)
            IN  IF check # "ok" THEN EWRaised(check, dst)
                ELSE EWReturned(op_code, policy, <<Launch(op_code, n)>>,
                                [dst EXCEPT !.data = LaunchUnaryEW(kernel, src, dst)])
    IN  IF op_code = "LogicalNot"
        THEN IF ~DispatchWithBoolOk(src_dtype)
             THEN EWRaised("Unsupported data type.", dst)
             ELSE IF dst_dtype = src_dtype THEN launch("ALL_SAME")
             ELSE IF dst_dtype = "Bool" THEN launch("INPUT_SAME_OUTPUT_BOOL")
             ELSE EWRaised("Boolean op's output type must be boolean or the same type as the input.", dst)
        ELSE IF op_code \in {"IsNan", "IsInf", "IsFinite"}
        THEN IF ~AssertDtypeIsFloat(src_dtype)
             THEN EWRaised("Only supports Float32 and Float64.", dst)
             ELSE IF Indexer_Check(<<src>>, dst, "INPUT_SAME_OUTPUT_BOOL") # "ok"
             THEN EWRaised(Indexer_Check(<<src>>, dst, "INPUT_SAME_OUTPUT_BOOL"), dst)
             ELSE IF ~DispatchOk(src_dtype)
             THEN EWRaised("Unsupported data type.", dst)
             ELSE launch("INPUT_SAME_OUTPUT_BOOL")
        ELSE IF Indexer_Check(<<src>>, dst, "ALL_SAME") # "ok"
        THEN EWRaised(Indexer_Check(<<src>>, dst, "ALL_SAME"), dst)
        ELSE IF ~DispatchOk(src_dtype)
        THEN EWRaised("Unsupported data type.", dst)
        ELSE IF op_code \in {"Sqrt", "Sin", "Cos", "Exp"}
        THEN IF ~AssertDtypeIsFloat(src_dtype)
             THEN EWRaised("Only supports Float32 and Float64.", dst)
             ELSE launch("ALL_SAME")
        ELSE IF op_code \in {"Neg", "Abs", "Floor", "Ceil", "Round", "Trunc"}
        THEN launch("ALL_SAME")
        ELSE EWRaised("Unimplemented op_code for UnaryEWCPU", dst)

BinaryEWOpCodes ==
    {"Add", "Sub", "Mul", "Div", "LogicalAnd", "LogicalOr", "LogicalXor",
     "Gt", "Lt", "Ge", "Le", "Eq", "Ne"}

\* s_boolean_binary_ew_op_codes.
s_boolean_binary_ew_op_codes ==
    {"LogicalAnd", "LogicalOr", "LogicalXor", "Gt", "Lt", "Ge", "Le", "Eq", "Ne"}

\* The quotient of integers as C++ rounds it, towards zero.
IntDiv(a, b) ==
    LET q == (IF a < 0 THEN -a ELSE a) \div (IF b < 0 THEN -b ELSE b)
    IN  IF (a < 0) = (b < 0) THEN q ELSE -q

BoolOf(b) == IF b THEN 1 ELSE 0

\* A bug: the kernels of Ge and Gt are exchanged.
CPUComparisonElementKernel_GeGt(op_code, a, b) ==
    CASE op_code = "Gt" -> a >= b
      [] op_code = "Lt" -> a < b
      [] op_code = "Ge" -> a > b
      [] op_code = "Le" -> a <= b
      [] op_code = "Eq" -> a = b
      [] op_code = "Ne" -> a # b

\* CPUGt/Lt/Geq/Leq/Eq/NeqElementKernel: the comparison of two elements of
\* type src_t.
CPUComparisonElementKernel(op_code, a, b) ==
    CASE op_code = "Gt" -> a > b
      [] op_code = "Lt" -> a < b
      [] op_code = "Ge" -> a >= b
      [] op_code = "Le" -> a <= b
      [] op_code = "Eq" -> a = b
      [] op_code = "Ne" -> a # b

\* CPULogicalAnd/Or/XorElementKernel on two elements.
CPULogicalElementKernel(op_code, a, b) ==
    CASE op_code = "LogicalAnd" -> ToBool(a) = 1 /\ ToBool(b) = 1
      [] op_code = "LogicalOr" -> ToBool(a) = 1 \/ ToBool(b) = 1
      [] op_code = "LogicalXor" -> ToBool(a) # ToBool(b)

\* A bug: the kernel of Add subtracts.
CPUArithmeticElementKernel_AddSub(op_code, a, b, scalar_t) ==
    CASE op_code \in {"Add", "Sub"} -> a - b
      [] op_code = "Mul" ->
            IF IsFloatDtype(scalar_t) THEN Applied("Mul", <<a, b>>) ELSE a * b
      [] op_code = "Div" ->
            IF IsFloatDtype(scalar_t) THEN Applied("Div", <<a, b>>) ELSE IntDiv(a, b)

\* CPUAdd/Sub/Mul/DivElementKernel<scalar_t> on two elements. A product or
\* quotient of floating point elements stays an application.
CPUArithmeticElementKernel(op_code, a, b, scalar_t) ==
    CASE op_code = "Add" -> a + b
      [] op_code = "Sub" -> a - b
      [] op_code = "Mul" ->
            IF IsFloatDtype(scalar_t) THEN Applied("Mul", <<a, b>>) ELSE a * b
      [] op_code = "Div" ->
            IF IsFloatDtype(scalar_t) THEN Applied("Div", <<a, b>>) ELSE IntDiv(a, b)

\* The elements of dst after LaunchBinaryEWKernel(indexer, kernel).
LaunchBinaryEW(kernel(_, _), lhs, rhs, dst) ==
    [w \in 1..Indexer_NumWorkloads(dst) |->
        kernel(lhs.data[Indexer_GetInputPtr(lhs, dst, w - 1)],
               rhs.data[Indexer_GetInputPtr(rhs, dst, w - 1)])]

\* LaunchBoolBinaryEWCPUKernel<src_t, dst_t>(lhs, rhs, dst, op_code, indexer).
LaunchBoolBinaryEWCPUKernel(lhs, rhs, dst, op_code, policy) ==
    LET kernel(a, b) ==
            Cast(BoolOf(IF op_code \in {"LogicalAnd", "LogicalOr", "LogicalXor"}
                        THEN CPULogicalElementKernel(op_code, a, b)
                        ELSE CPUComparisonElementKernel(op_code, a, b)),
                 "Bool", dst.dtype)
    IN  IF op_code \in s_boolean_binary_ew_op_codes \cap BinaryEWOpCodes
        THEN EWReturned("boolean", policy,
                        <<Launch(op_code, Indexer_NumWorkloads(dst))>>,
                        [dst EXCEPT !.data = LaunchBinaryEW(kernel, lhs, rhs, dst)])
        ELSE EWReturned("boolean", policy, <<>>, dst)

\* Integer division by an element that is zero.
DividesByZero(lhs, rhs, dst, op_code) ==
    /\ op_code = "Div"
    /\ ~IsFloatDtype(lhs.dtype)
    /\ \E w \in 1..Indexer_NumWorkloads(dst) :
          rhs.data[Indexer_GetInputPtr(rhs, dst, w - 1)] = 0

\* The workloads of an integer division whose divisor is not zero.
DefinedQuotients(lhs, rhs, dst) ==
    { w \in 1..Indexer_NumWorkloads(dst) :
        rhs.data[Indexer_GetInputPtr(rhs, dst, w - 1)] # 0 }

\* An integer division by zero is undefined; the process is killed at the
\* first one a thread reaches. The sets of workloads that can have stored
\* their quotient by then: any of those with a divisor that is not zero
\* (in a launch run by one thread, those before the first zero divisor).
\* A call that divides by no zero has one course, in which all store.
StoredBeforeKill(lhs, rhs, dst, op_code) ==
    IF /\ op_code \notin s_boolean_binary_ew_op_codes
       /\ Indexer_Check(<<lhs, rhs>>, dst, "ALL_SAME") = "ok"
       /\ DispatchOk(lhs.dtype)
       /\ DividesByZero(lhs, rhs, dst, op_code)
    THEN SUBSET DefinedQuotients(lhs, rhs, dst)
    ELSE {1..Indexer_NumWorkloads(dst)}

\* The case of the arithmetic switch that op_code selects.
BinaryEW_ArithmeticCase(op_code) ==
    IF op_code \in {"Add", "Sub", "Mul", "Div"} THEN op_code ELSE "default"

\* BinaryEWCPU(lhs, rhs, dst, op_code). stored is the set of workloads that
\* store their result: all of them, unless an integer division by zero
\* kills the process.
BinaryEWCPU(lhs, rhs, dst, op_code, stored) ==
    LET src_dtype == lhs.dtype
        dst_dtype == dst.dtype
        bool_launch(policy) ==
            LET check == Indexer_Check(<<lhs, rhs>>, dst, policy)
            IN  IF check # "ok" THEN EWRaised(check, dst)
                ELSE LaunchBoolBinaryEWCPUKernel(lhs, rhs, dst, op_code, policy)
        case == BinaryEW_ArithmeticCase(op_code)
        kernel(a, b) == CPUArithmeticElementKernel(case, a, b, src_dtype)
    IN  IF op_code \in s_boolean_binary_ew_op_codes
        THEN IF ~DispatchWithBoolOk(src_dtype)
             THEN EWRaised("Unsupported data type.", dst)
             ELSE IF dst_dtype = src_dtype THEN bool_launch("ALL_SAME")
             ELSE IF dst_dtype = "Bool" THEN bool_launch("INPUT_SAME_OUTPUT_BOOL")
             ELSE EWRaised("Boolean op's output type must be boolean or the same type as the input.", dst)
        ELSE IF Indexer_Check(<<lhs, rhs>>, dst, "ALL_SAME") # "ok"
        THEN EWRaised(Indexer_Check(<<lhs, rhs>>, dst, "ALL_SAME"), dst)
        ELSE IF ~DispatchOk(src_dtype)
        THEN EWRaised("Unsupported data type.", dst)
        ELSE IF case = "default"
        THEN EWReturned("arithmetic", "ALL_SAME", <<>>, dst)
        ELSE IF DividesByZero(lhs, rhs, dst, case)
        THEN [outcome |-> "undefined", error |-> "", path |-> "arithmetic",
              policy |-> "ALL_SAME",
              launches |-> <<Launch(case, Indexer_NumWorkloads(dst))>>,
              dst |-> [dst EXCEPT !.data =
                          [w \in 1..Indexer_NumWorkloads(dst) |->
                              IF w \in stored
                              THEN kernel(lhs.data[Indexer_GetInputPtr(lhs, dst, w - 1)],
                                          rhs.data[Indexer_GetInputPtr(rhs, dst, w - 1)])
                              ELSE dst.data[w]]]]
        ELSE EWReturned("arithmetic", "ALL_SAME",
                        <<Launch(case, Indexer_NumWorkloads(dst))>>,
                        [dst EXCEPT !.data = LaunchBinaryEW(kernel, lhs, rhs, dst)])

\* The tensors of the model: one-dimensional, of every dtype.
EWSources ==
    UNION { { EWTensor(dtype, <<len>>, contiguous, data) :
                data \in [1..len -> EWValues(dtype)] } :
            dtype \in EWDtypes, len \in 1..MaxElements, contiguous \in BOOLEAN }

\* An output tensor before the call.
EWOutput(dtype, shape, contiguous) ==
    EWTensor(dtype, shape, contiguous,
             [w \in 1..NumElements(shape) |-> StaleValue(dtype)])

EWOutputs ==
    { EWOutput(dtype, <<len>>, contiguous) :
        dtype \in EWDtypes, len \in 1..MaxElements, contiguous \in BOOLEAN }

\* Columns (r, 1) and rows (1, c) of Int64 elements.
EWColumns ==
    UNION { { EWTensor("Int64", <<r, 1>>, TRUE, data) :
                data \in [1..r -> EWValues("Int64")] } : r \in 1..MaxRows }

EWRows ==
    UNION { { EWTensor("Int64", <<1, c>>, TRUE, data) :
                data \in [1..c -> EWValues("Int64")] } : c \in 1..MaxCols }

NoCall == [fn |-> "none", op_code |-> "none", outcome |-> "ok", error |-> "",
           path |-> "none", policy |-> "none", launches |-> <<>>, dst |-> NoTensor]

\* No kernel call is set up.
EWInit ==
    /\ ew_lhs = NoTensor
    /\ ew_rhs = NoTensor
    /\ ew_dst = NoTensor
    /\ ew_call = NoCall

\* The arguments of a kernel call with one input: the object dtype goes
\* with the object dtype only.
EWInitUnary ==
    /\ ew_lhs \in EWSources
    /\ ew_rhs = NoTensor
    /\ ew_dst \in EWOutputs
    /\ Dtype_IsObject(ew_lhs.dtype) <=> Dtype_IsObject(ew_dst.dtype)
    /\ ew_call = NoCall

\* The arguments of a kernel call with two inputs of one dtype and of
\* shapes that broadcast against each other.
EWInitBinary ==
    /\ ew_lhs \in EWSources
    /\ ew_lhs.contiguous
    /\ ew_rhs \in EWSources
    /\ ew_rhs.contiguous
    /\ ew_rhs.dtype = ew_lhs.dtype
    /\ \/ CanBeBrocastedToShape(ew_lhs.shape, ew_rhs.shape)
       \/ CanBeBrocastedToShape(ew_rhs.shape, ew_lhs.shape)
    /\ \E dtype \in EWDtypes :
          ew_dst = EWOutput(dtype, BroadcastedShape(ew_lhs.shape, ew_rhs.shape), TRUE)
    /\ ew_call = NoCall

\* The arguments of a kernel call on a column and a row.
EWInitColumnRow ==
    /\ ew_lhs \in EWColumns
    /\ ew_rhs \in EWRows
    /\ \E dtype \in {"Int64", "Bool"} :
          ew_dst = EWOutput(dtype, BroadcastedShape(ew_lhs.shape, ew_rhs.shape), TRUE)
    /\ ew_call = NoCall

EWCall(fn, op_code, r) ==
    [fn |-> fn, op_code |-> op_code, outcome |-> r.outcome, error |-> r.error,
     path |-> r.path, policy |-> r.policy, launches |-> r.launches, dst |-> r.dst]

\* The call CopyCPU(ew_lhs, ew_dst).
Call_CopyCPU ==
    /\ ew_call = NoCall
    /\ ew_lhs # NoTensor
    /\ ew_rhs = NoTensor
    /\ LET r == CopyCPU(ew_lhs, ew_dst)
       IN  /\ ew_call' = EWCall("CopyCPU", "none", r)
           /\ ew_dst' = r.dst
    /\ UNCHANGED <<ew_lhs, ew_rhs, stream_vars, index_vars, pf_vars, cu_vars, ht_vars, rest_vars>>

\* The call UnaryEWCPU(ew_lhs, ew_dst, op_code).
Call_UnaryEWCPU(op_code) ==
    /\ ew_call = NoCall
    /\ ew_lhs # NoTensor
    /\ ew_rhs = NoTensor
    /\ LET r == UnaryEWCPU(ew_lhs, ew_dst, op_code)
       IN  /\ ew_call' = EWCall("UnaryEWCPU", op_code, r)
           /\ ew_dst' = r.dst
    /\ UNCHANGED <<ew_lhs, ew_rhs, stream_vars, index_vars, pf_vars, cu_vars, ht_vars, rest_vars>>

\* The call BinaryEWCPU(ew_lhs, ew_rhs, ew_dst, op_code).
Call_BinaryEWCPU(op_code) ==
    /\ ew_call = NoCall
    /\ ew_rhs # NoTensor
    /\ \E stored \in StoredBeforeKill(ew_lhs, ew_rhs, ew_dst, op_code) :
          LET r == BinaryEWCPU(ew_lhs, ew_rhs, ew_dst, op_code, stored)
          IN  /\ ew_call' = EWCall("BinaryEWCPU", op_code, r)
              /\ ew_dst' = r.dst
    /\ UNCHANGED <<ew_lhs, ew_rhs, stream_vars, index_vars, pf_vars, cu_vars, ht_vars, rest_vars>>

EWNext ==
    \/ Call_CopyCPU
    \/ \E op_code \in UnaryEWOpCodes \cup {UnknownOpCode} : Call_UnaryEWCPU(op_code)
    \/ \E op_code \in BinaryEWOpCodes \cup {UnknownOpCode} : Call_BinaryEWCPU(op_code)

(***************************************************************************)
(* The sizes of the hash table, FixedRadiusIndex.cpp lines 65-70, as a     *)
(* function of the number of dataset points alone.                         *)
(***************************************************************************)
MaxDatasetSize == 96

\* Numbers of dataset points: the small ones, and the ones around
\* max_hash_tabls_size / hash_table_size_factor.
DatasetSizes ==
    (0..MaxDatasetSize)
        \cup { hash_table_size_factor_den * max_hash_tabls_size + d : d \in -33..33 }
        \cup { 2 * hash_table_size_factor_den * (max_hash_tabls_size - 1) + 63 }

\* No dataset is being sized.
SizingInit ==
    ht_sizing = [num_dataset_points |-> 0, computed |-> FALSE, hash_table_size |-> 0]

\* A dataset of any of the sizes is given.
SizingAnyInit ==
    \E n \in DatasetSizes :
        ht_sizing = [num_dataset_points |-> n, computed |-> FALSE, hash_table_size |-> 0]

\* hash_table_size = std::min<int64_t>(std::max<int64_t>(
\* hash_table_size_factor * num_dataset_points, 1), max_hash_tabls_size).
Compute_hash_table_size ==
    /\ ~ht_sizing.computed
    /\ ht_sizing' = [ht_sizing EXCEPT
                        !.computed = TRUE,
                        !.hash_table_size = HashTableSize(ht_sizing.num_dataset_points)]
    /\ UNCHANGED <<stream_vars, index_vars, pf_vars, cu_vars, ew_vars, rest_vars>>

SizingNext == Compute_hash_table_size

(***************************************************************************)
(* utility/Logging.cpp: Logger::VError, the function behind LogError, and  *)
(* the settings of the Logger it could depend on. A format is a sequence   *)
(* of literal pieces and replacement fields "{}", with one argument for    *)
(* each field.                                                             *)
(***************************************************************************)
TextColor_Red == 1

Platforms == {"Posix", "MinGW", "MSVC"}

PrintFunctions == {"console_print_fcn_", "custom"}

RECURSIVE VFormat(_, _)
\* fmt::vformat(format, args): every replacement field replaced by the
\* next argument.
VFormat(format, args) ==
    IF format = <<>> THEN ""
    ELSE IF Head(format) = "{}"
    THEN Head(args) \o VFormat(Tail(format), Tail(args))
    ELSE Head(format) \o VFormat(Tail(format), args)

\* Logger::Impl::ColorString(text, text_color, highlight_text): the escape
\* sequences are left out where _WIN32 is defined.
ColorString(text, text_color, highlight_text, platform) ==
    IF platform \in {"MinGW", "MSVC"} THEN text
    ELSE "<ESC>[" \o ToString(highlight_text) \o ";" \o ToString(text_color + 30)
            \o "m" \o text \o "<ESC>[0;m"

\* A bug: the body is guarded by the verbosity level as in VWarning, and
\* the function returns when the level is below Warning.
VError_LevelGuarded(file_name, line_number, function_name, format, args, level, platform) ==
    LET err_msg == ColorString("[Open3D Error] (" \o function_name \o ") " \o file_name
                                  \o ":" \o ToString(line_number) \o ": "
                                  \o VFormat(format, args) \o "\n",
                               TextColor_Red, 1, platform)
    IN  IF level = "Error"
        THEN [outcome |-> "returns", what |-> "", cerr |-> <<>>]
        ELSE [outcome |-> "throws", what |-> err_msg,
              cerr |-> IF platform = "MSVC" THEN <<err_msg>> ELSE <<>>]

\* Logger::VError(file_name, line_number, function_name, force_console_log,
\* format, args): throws std::runtime_error(err_msg); with _MSC_VER the
\* message goes to std::cerr first. Neither the verbosity level nor the
\* print function is read.
VError(file_name, line_number, function_name, format, args, level, platform) ==
    LET err_msg == ColorString("[Open3D Error] (" \o function_name \o ") " \o file_name
                                  \o ":" \o ToString(line_number) \o ": "
                                  \o VFormat(format, args) \o "\n",
                               TextColor_Red, 1, platform)
    IN  [outcome |-> "throws", what |-> err_msg,
         cerr |-> IF platform = "MSVC" THEN <<err_msg>> ELSE <<>>]

\* The call sites of the model: file, line and function of a LogError.
LogSites ==
    {[file_name |-> "FixedRadiusIndex.cpp", line_number |-> 57,
      function_name |-> "SetTensorData"],
     [file_name |-> "UnaryEWCPU.cpp", line_number |-> 203,
      function_name |-> "operator()"]}

\* Formats with their arguments.
LogMessages ==
    {[format |-> <<"radius should be positive.">>, args |-> <<>>],
     [format |-> <<"Only supports Float32 and Float64, but ", "{}", " is used.">>,
      args |-> <<"Int32">>],
     [format |-> <<"{}", " != ", "{}">>, args |-> <<"Int32", "Float32">>],
     [format |-> <<"{}", " != ", "{}">>, args |-> <<"CPU:0", "CUDA:0">>]}

NoLogCall ==
    [fn |-> "none", site |-> [file_name |-> "", line_number |-> 0, function_name |-> ""],
     force_console_log |-> FALSE, format |-> <<>>, args |-> <<>>,
     outcome |-> "returns", what |-> "", cerr |-> <<>>, printed |-> <<>>]

\* Logger::Logger() on a POSIX build: the console print function.
LoggerInit ==
    /\ print_fcn_ = "console_print_fcn_"
    /\ lg_platform = "Posix"
    /\ lg_last = NoLogCall

\* The Logger of a build for any platform.
LoggerAnyInit ==
    /\ print_fcn_ = "console_print_fcn_"
    /\ lg_platform \in Platforms
    /\ lg_last = NoLogCall

\* LogError at a call site: Logger::VError is called.
Call_VError(site, force_console_log, message) ==
    LET r == VError(site.file_name, site.line_number, site.function_name,
                    message.format, message.args, verbosity_level_, lg_platform)
    IN  /\ lg_last' = [fn |-> "VError", site |-> site,
                       force_console_log |-> force_console_log,
                       format |-> message.format, args |-> message.args,
                       outcome |-> r.outcome, what |-> r.what, cerr |-> r.cerr,
                       printed |-> <<>>]
        /\ UNCHANGED <<print_fcn_, lg_platform, stream_vars, index_vars, pf_vars,
                       cu_vars, ew_vars, ht_vars, io_vars, wk_vars, pb_vars>>

\* Logger::SetPrintFunction(print_fcn).
SetPrintFunction(print_fcn) ==
    /\ print_fcn_' = print_fcn
    /\ UNCHANGED <<lg_platform, lg_last, stream_vars, index_vars, pf_vars,
                   cu_vars, ew_vars, ht_vars, io_vars, wk_vars, pb_vars>>

\* Logger::ResetPrintFunction().
ResetPrintFunction ==
    /\ print_fcn_' = "console_print_fcn_"
    /\ UNCHANGED <<lg_platform, lg_last, stream_vars, index_vars, pf_vars,
                   cu_vars, ew_vars, ht_vars, io_vars, wk_vars, pb_vars>>

LoggerNext ==
    \/ \E site \in LogSites, force_console_log \in BOOLEAN, message \in LogMessages :
          Call_VError(site, force_console_log, message)
    \/ \E print_fcn \in PrintFunctions : SetPrintFunction(print_fcn)
    \/ ResetPrintFunction
    \/ \E level \in VerbosityLevels : SetVerbosityLevel(level)

(***************************************************************************)
(* t/io/PointCloudIO.cpp: ReadPointCloud and CreatePointCloudFromFile. A   *)
(* file name is a sequence of characters; a reader either succeeds or      *)
(* fails, as the file decides.                                             *)
(***************************************************************************)
\* std::tolower on the characters of the model.
ToLowerChar(c) ==
    CASE c = "P" -> "p"
      [] c = "L" -> "l"
      [] c = "Y" -> "y"
      [] c = "T" -> "t"
      [] c = "S" -> "s"
      [] OTHER -> c

RECURSIVE LowerCaseString(_)
\* The characters lower-cased and joined to a string.
LowerCaseString(chars) ==
    IF chars = <<>> THEN ""
    ELSE ToLowerChar(Head(chars)) \o LowerCaseString(Tail(chars))

\* utility::filesystem::GetFileExtensionInLowerCase(filename): what follows
\* the last dot, lower-cased; empty without a dot, with a dot at the end
\* and with a path separator after the dot.
GetFileExtensionInLowerCase(filename) ==
    LET dots == { i \in 1..Len(filename) : filename[i] = "." }
        last == CHOOSE i \in dots : \A j \in dots : j <= i
        extension == SubSeq(filename, last + 1, Len(filename))
    IN  IF dots = {} THEN ""
        ELSE IF last = Len(filename) THEN ""
        ELSE IF \E k \in 1..Len(extension) : extension[k] = "/" THEN ""
        ELSE LowerCaseString(extension)

\* file_extension_to_pointcloud_read_function.
file_extension_to_pointcloud_read_function ==
    [xyzi |-> "ReadPointCloudFromXYZI",
     ply |-> "ReadPointCloudFromPLY",
     pts |-> "ReadPointCloudFromPTS"]

\* The file names and the format arguments of the model.
FileNames ==
    {<<"a", ".", "p", "l", "y">>, <<"a", ".", "P", "L", "Y">>,
     <<"a", ".", "P", "t", "s">>, <<"a", ".", "x", "y", "z", "i">>,
     <<"a", ".", "x", "y", "z">>, <<"a", ".", "p", "c", "d">>,
     <<"a">>, <<"a", ".">>, <<"a", ".", "b", ".", "p", "l", "y">>,
     <<"a", ".", "p", "l", "y", "/", "b">>}

Formats == {"auto", "ply", "PLY", "xyzi", "pts", "pcd", "xyz"}

\* open3d::io::ReadPointCloudOption, as far as ReadPointCloud reads it.
ReadPointCloudOption(format, remove_nan_points, remove_infinite_points, print_progress) ==
    [format |-> format, remove_nan_points |-> remove_nan_points,
     remove_infinite_points |-> remove_infinite_points,
     print_progress |-> print_progress]

ReadPointCloudOptions ==
    { ReadPointCloudOption(format, nan, inf, FALSE) :
        format \in Formats, nan \in BOOLEAN, inf \in BOOLEAN }

\* A default-constructed t::geometry::PointCloud.
EmptyPointCloud == [reader |-> "none", dtype |-> "none", complete |-> TRUE]

\* The point cloud after a tensor-native reader ran on it.
PointCloudReadBy(reader, success) ==
    [reader |-> reader, dtype |-> "file", complete |-> success]

\* geometry::PointCloud::FromLegacyPointCloud(legacy_pointcloud, dtype).
FromLegacyPointCloud(dtype) ==
    [reader |-> "open3d::io::ReadPointCloud", dtype |-> dtype, complete |-> TRUE]

\* A bug: the options are rejected only when both are set.
UnimplementedOptions_Both(params) ==
    params.remove_nan_points /\ params.remove_infinite_points

\* params.remove_nan_points || params.remove_infinite_points.
UnimplementedOptions(params) ==
    params.remove_nan_points \/ params.remove_infinite_points

\* ReadPointCloud(filename, pointcloud, params), when the reader it runs
\* returns success: how the call ends, the format it resolved, the readers
\* it ran and the point cloud after it.
ReadPointCloud(filename, pointcloud, params, success) ==
    LET format == IF params.format = "auto"
                  THEN GetFileExtensionInLowerCase(filename)
                  ELSE params.format
    IN  IF format \notin DOMAIN file_extension_to_pointcloud_read_function
        THEN [outcome |-> "returns", value |-> success, error |-> "",
              format |-> format, readers |-> <<"open3d::io::ReadPointCloud">>,
              pointcloud |-> IF success THEN FromLegacyPointCloud("Float64")
                             ELSE pointcloud]
        ELSE LET reader == file_extension_to_pointcloud_read_function[format]
             IN  IF UnimplementedOptions(params)
                 THEN [outcome |-> "throws", value |-> FALSE,
                       error |-> "remove_nan_points and remove_infinite_points options are unimplemented.",
                       format |-> format, readers |-> <<reader>>,
                       pointcloud |-> PointCloudReadBy(reader, success)]
                 ELSE [outcome |-> "returns", value |-> success, error |-> "",
                       format |-> format, readers |-> <<reader>>,
                       pointcloud |-> PointCloudReadBy(reader, success)]

IOCall(fn, filename, params, r) ==
    [fn |-> fn, filename |-> filename, params |-> params, outcome |-> r.outcome,
     value |-> r.value, error |-> r.error, format |-> r.format,
     readers |-> r.readers, pointcloud |-> r.pointcloud]

NoIOCall ==
    [fn |-> "none", filename |-> <<>>,
     params |-> ReadPointCloudOption("auto", FALSE, FALSE, FALSE),
     outcome |-> "returns", value |-> FALSE, error |-> "", format |-> "",
     readers |-> <<>>, pointcloud |-> EmptyPointCloud]

\* The caller holds an empty point cloud.
IOInit ==
    /\ io_pointcloud = EmptyPointCloud
    /\ io_last = NoIOCall

\* ReadPointCloud(filename, io_pointcloud, params) is called.
Call_ReadPointCloud(filename, params) ==
    \E success \in BOOLEAN :
        LET r == ReadPointCloud(filename, io_pointcloud, params, success)
        IN  /\ io_last' = IOCall("ReadPointCloud", filename, params, r)
            /\ io_pointcloud' = r.pointcloud
            /\ UNCHANGED <<stream_vars, index_vars, pf_vars, cu_vars, ew_vars,
                           ht_vars, lg_vars, wk_vars, pb_vars>>

\* CreatePointCloudFromFile(filename, format, print_progress): a new point
\* cloud is read with both removal options set; the caller's point cloud
\* is not involved.
Call_CreatePointCloudFromFile(filename, format, print_progress) ==
    \E success \in BOOLEAN :
        LET params == ReadPointCloudOption(format, TRUE, TRUE, print_progress)
            r == ReadPointCloud(filename, EmptyPointCloud, params, success)
        IN  /\ io_last' = IOCall("CreatePointCloudFromFile", filename, params, r)
            /\ UNCHANGED <<io_pointcloud, stream_vars, index_vars, pf_vars,
                           cu_vars, ew_vars, ht_vars, lg_vars, wk_vars, pb_vars>>

IONext ==
    \/ \E filename \in FileNames, params \in ReadPointCloudOptions :
          Call_ReadPointCloud(filename, params)
    \/ \E filename \in FileNames, format \in Formats, print_progress \in BOOLEAN :
          Call_CreatePointCloudFromFile(filename, format, print_progress)

(***************************************************************************)
(* The workers of one elementwise launch on CPU: LaunchUnaryEWKernel,      *)
(* LaunchBinaryEWKernel and the scalar fill of CopyCPU, followed workload  *)
(* by workload on a buffer of a few Int32 elements. A view is the address  *)
(* of its first element and the distance between two of its elements; a    *)
(* team member loads each input operand of a workload and stores its       *)
(* result in separate steps, between which the other members run.          *)
(***************************************************************************)
\* The number of elements of the buffer and the largest number of
\* workloads of a launch.
WkMemSize == 5
MaxWorkloads == 3

WkAddresses == 0..(WkMemSize - 1)

\* A view of n elements into the buffer.
View(offset, stride, n) == [offset |-> offset, stride |-> stride, n |-> n]

\* The addresses of the elements of a view.
ViewAddresses(view) == { view.offset + k * view.stride : k \in 0..(view.n - 1) }

\* The views of n elements that lie in the buffer: views whose elements
\* follow each other, and views that repeat one element (a broadcast
\* input, of stride 0).
Views(n, strides) ==
    { v \in { View(offset, stride, n) : offset \in WkAddresses, stride \in strides } :
        ViewAddresses(v) \subseteq WkAddresses }

\* Indexer::GetInputPtr(k, workload_idx) and Indexer::GetOutputPtr(
\* workload_idx), as addresses.
Indexer_InputAddress(input, workload_idx) == input.offset + workload_idx * input.stride

Indexer_OutputAddress(output, workload_idx) == output.offset + workload_idx * output.stride

\* A bug: every workload writes the first element of dst.
WorkloadOutput_First(call, workload_idx) == Indexer_OutputAddress(call.dst, 0)

\* The address workload workload_idx writes: indexer.GetOutputPtr(i) in
\* the two launchers, &dst_ptr[workload_idx] in the scalar fill.
WorkloadOutput(call, workload_idx) == Indexer_OutputAddress(call.dst, workload_idx)

\* The addresses workload workload_idx reads: indexer.GetInputPtr(0, i),
\* and indexer.GetInputPtr(1, i) in the binary launcher; the scalar fill
\* reads no element in the loop, scalar_element is a captured local.
WorkloadInputs(call, workload_idx) ==
    IF call.launcher = "scalar-fill" THEN <<>>
    ELSE [k \in DOMAIN call.inputs |->
            Indexer_InputAddress(call.inputs[k], workload_idx)]

\* The element the workload stores, from the values it loaded: the negate
\* kernel in the unary launch, the subtract kernel in the binary launch,
\* scalar_element in the scalar fill.
WorkloadResult(call, loaded) ==
    IF call.launcher = "LaunchUnaryEWKernel"
    THEN CPUUnaryElementKernel("Neg", loaded[1], "Int32", "Int32")
    ELSE IF call.launcher = "LaunchBinaryEWKernel"
    THEN CPUArithmeticElementKernel("Sub", loaded[1], loaded[2], "Int32")
    ELSE call.scalar_element

RECURSIVE SerialRun(_, _, _)
\* The buffer after the workloads i, i + 1, ..., n - 1 have run one after
\* the other on mem.
SerialRun(call, mem, i) ==
    IF i >= call.n THEN mem
    ELSE LET inputs == WorkloadInputs(call, i)
             loaded == [k \in DOMAIN inputs |-> mem[inputs[k]]]
         IN  SerialRun(call,
                       [mem EXCEPT ![WorkloadOutput(call, i)] =
                                        WorkloadResult(call, loaded)],
                       i + 1)

\* The buffers a launch starts from.
WkBuffers ==
    { [a \in WkAddresses |-> a + 1], [a \in WkAddresses |-> 2 - a] }

NoLaunch ==
    [launcher |-> "none", n |-> 0, dst |-> View(0, 1, 0), inputs |-> <<>>,
     scalar_element |-> 0, team |-> 0, mem |-> [a \in WkAddresses |-> 0]]

\* No launch has been made; the buffer holds what the tensors hold.
WorkerInit ==
    /\ wk_pc = "idle"
    /\ wk_call = NoLaunch
    /\ wk_mem = [a \in WkAddresses |-> a + 1]
    /\ wk_threads = <<>>
    /\ wk_reads = {}
    /\ wk_writes = {}

WorkerAnyInit ==
    /\ wk_pc = "idle"
    /\ wk_call = NoLaunch
    /\ wk_mem \in WkBuffers
    /\ wk_threads = <<>>
    /\ wk_reads = {}
    /\ wk_writes = {}

\* cpu_launcher::ParallelFor(n, SMALL_OP_GRAIN_SIZE, func) is entered by a
\* launch: the team is formed and schedule(static) hands out the
\* workloads. above_grain says whether the launch has more workloads than
\* SMALL_OP_GRAIN_SIZE, of which the model follows n; team is the size of
\* the team the runtime forms.
Fork(launcher, dst, inputs, scalar_element, above_grain, max_threads, team) ==
    LET schedule == StaticSchedule(dst.n, team)
    IN  /\ wk_pc = "idle"
        /\ team \in TeamSizes(above_grain, max_threads)
        /\ wk_pc' = "forked"
        /\ wk_call' = [launcher |-> launcher, n |-> dst.n, dst |-> dst,
                       inputs |-> inputs, scalar_element |-> scalar_element,
                       team |-> team, mem |-> wk_mem]
        /\ wk_threads' = [t \in 1..team |->
                            [next |-> schedule[t].lo, hi |-> schedule[t].hi,
                             loaded_operands |-> {}, loaded |-> <<0, 0>>]]
        /\ wk_reads' = {}
        /\ wk_writes' = {}
        /\ UNCHANGED <<wk_mem, stream_vars, index_vars, pf_vars, cu_vars,
                       ew_vars, ht_vars, lg_vars, io_vars, pb_vars>>

\* LaunchUnaryEWKernel(indexer, func) with the indexer of src and dst.
Fork_LaunchUnaryEWKernel(dst, src, above_grain, max_threads, team) ==
    Fork("LaunchUnaryEWKernel", dst, <<src>>, 0, above_grain, max_threads, team)

\* LaunchBinaryEWKernel(indexer, func) with the indexer of lhs, rhs and
\* dst.
Fork_LaunchBinaryEWKernel(dst, lhs, rhs, above_grain, max_threads, team) ==
    Fork("LaunchBinaryEWKernel", dst, <<lhs, rhs>>, 0, above_grain, max_threads, team)

\* CopyCPU, the scalar fill: dst is contiguous and has more than one
\* element, scalar_element is read from the one element of src before the
\* loop is entered.
Fork_ScalarFill(dst, src, above_grain, max_threads, team) ==
    /\ dst.n > 1
    /\ dst.stride = 1
    /\ src.n = 1
    /\ Fork("scalar-fill", dst, <<src>>,
            Cast(wk_mem[src.offset], "Int32", "Int32"), above_grain, max_threads,
            team)

\* Team member t loads input operand k of its next workload: *src in the
\* unary element kernels, *lhs or *rhs, in either order, in the binary
\* ones.
Worker_Load(t, k) ==
    /\ wk_pc = "forked"
    /\ t \in DOMAIN wk_threads
    /\ wk_threads[t].next < wk_threads[t].hi
    /\ LET i == wk_threads[t].next
           inputs == WorkloadInputs(wk_call, i)
       IN  /\ k \in DOMAIN inputs
           /\ k \notin wk_threads[t].loaded_operands
           /\ wk_threads' = [wk_threads EXCEPT
                                ![t].loaded_operands = @ \cup {k},
                                ![t].loaded[k] = wk_mem[inputs[k]]]
           /\ wk_reads' = wk_reads \cup
                            {[thread |-> t, workload |-> i, address |-> inputs[k]]}
    /\ UNCHANGED <<wk_pc, wk_call, wk_mem, wk_writes, stream_vars, index_vars,
                   pf_vars, cu_vars, ew_vars, ht_vars, lg_vars, io_vars, pb_vars>>

\* Team member t, having loaded the operands, stores the result of its
\* next workload and goes on to the following one.
Worker_Store(t) ==
    /\ wk_pc = "forked"
    /\ t \in DOMAIN wk_threads
    /\ wk_threads[t].next < wk_threads[t].hi
    /\ LET i == wk_threads[t].next
           address == WorkloadOutput(wk_call, i)
       IN  /\ wk_threads[t].loaded_operands = DOMAIN WorkloadInputs(wk_call, i)
           /\ wk_mem' = [wk_mem EXCEPT
                            ![address] = WorkloadResult(wk_call, wk_threads[t].loaded)]
           /\ wk_writes' = wk_writes \cup
                             {[thread |-> t, workload |-> i, address |-> address]}
           /\ wk_threads' = [wk_threads EXCEPT ![t].next = i + 1,
                                                ![t].loaded_operands = {},
                                                ![t].loaded = <<0, 0>>]
    /\ UNCHANGED <<wk_pc, wk_call, wk_reads, stream_vars, index_vars,
                   pf_vars, cu_vars, ew_vars, ht_vars, lg_vars, io_vars, pb_vars>>

\* The barrier at the end of the parallel region.
Worker_Join ==
    /\ wk_pc = "forked"
    /\ \A t \in DOMAIN wk_threads : wk_threads[t].next = wk_threads[t].hi
    /\ wk_pc' = "joined"
    /\ UNCHANGED <<wk_call, wk_mem, wk_threads, wk_reads, wk_writes,
                   stream_vars, index_vars, pf_vars, cu_vars, ew_vars, ht_vars,
                   lg_vars, io_vars, pb_vars>>

\* A launch is made when no launch is running or has run.
WorkerNext ==
    \/ /\ wk_pc = "idle"
       /\ \E n \in 0..MaxWorkloads, above_grain \in BOOLEAN,
             max_threads \in Workers, team \in Workers :
             \E dst \in Views(n, {1}), src \in Views(n, {0, 1}) :
                Fork_LaunchUnaryEWKernel(dst, src, above_grain, max_threads, team)
    \/ /\ wk_pc = "idle"
       /\ \E n \in 0..MaxWorkloads, above_grain \in BOOLEAN,
             max_threads \in Workers, team \in Workers :
             \E dst \in Views(n, {1}), lhs \in Views(n, {0, 1}), rhs \in Views(n, {0}) :
                Fork_LaunchBinaryEWKernel(dst, lhs, rhs, above_grain, max_threads, team)
    \/ /\ wk_pc = "idle"
       /\ \E n \in 0..MaxWorkloads, above_grain \in BOOLEAN,
             max_threads \in Workers, team \in Workers :
             \E dst \in Views(n, {1}), src \in Views(1, {1}) :
                Fork_ScalarFill(dst, src, above_grain, max_threads, team)
    \/ \E t \in Workers, k \in 1..2 : Worker_Load(t, k)
    \/ \E t \in Workers : Worker_Store(t)
    \/ Worker_Join

(***************************************************************************)
(* ConsoleProgressBar (utility/Logging.cpp): Reset, operator++ and         *)
(* SetCurrentCount. The counts are size_t, of 64 bits, and wrap. A size_t  *)
(* value is written as its four 16-bit limbs, the most significant first:  *)
(* 1639 is <<0, 0, 0, 1639>>, 65560 is <<0, 0, 1, 24>>.                    *)
(***************************************************************************)
\* The largest count operator++ counts up from.
MaxCount == 42

LimbBase == 2 ^ 16

\* The size_t value of a natural number below 2^31.
Size(x) == <<0, 0, x \div LimbBase, x % LimbBase>>

\* The conversion of an int to size_t: a negative x becomes 2^64 + x.
ToSize(x) ==
    IF x >= 0 THEN Size(x)
    ELSE [i \in 1..4 |-> LimbBase - 1 - Size(-x - 1)[i]]

\* a < b on size_t.
SizeLess(a, b) ==
    \E i \in 1..4 : a[i] < b[i] /\ \A j \in 1..(i - 1) : a[j] = b[j]

\* a + b on size_t: the sum modulo 2^64.
SizeAdd(a, b) ==
    LET s4 == a[4] + b[4]
        s3 == a[3] + b[3] + s4 \div LimbBase
        s2 == a[2] + b[2] + s3 \div LimbBase
        s1 == a[1] + b[1] + s2 \div LimbBase
    IN  <<s1 % LimbBase, s2 % LimbBase, s3 % LimbBase, s4 % LimbBase>>

\* a - b on size_t: the difference modulo 2^64.
SizeSub(a, b) ==
    SizeAdd(SizeAdd(a, [i \in 1..4 |-> LimbBase - 1 - b[i]]), Size(1))

\* a * m on size_t, m an int with 0 <= m < 2^15: the product modulo 2^64.
SizeMul(a, m) ==
    LET p4 == a[4] * m
        p3 == a[3] * m + p4 \div LimbBase
        p2 == a[2] * m + p3 \div LimbBase
        p1 == a[1] * m + p2 \div LimbBase
    IN  <<p1 % LimbBase, p2 % LimbBase, p3 % LimbBase, p4 % LimbBase>>

\* Long division by d over one limb of the dividend: the 16 bits of limb
\* are brought into the remainder r, the most significant first. step[k]
\* is the limb of the quotient and the remainder after k bits.
SizeDivLimb(limb, r, d) ==
    LET step[k \in 0..16] ==
            IF k = 0 THEN <<0, r>>
            ELSE LET before == step[k - 1]
                     carry == before[2][1] >= LimbBase \div 2
                     shifted == SizeAdd(SizeAdd(before[2], before[2]),
                                        Size((limb \div 2 ^ (16 - k)) % 2))
                     fits == carry \/ ~SizeLess(shifted, d)
                 IN  <<2 * before[1] + (IF fits THEN 1 ELSE 0),
                       IF fits THEN SizeSub(shifted, d) ELSE shifted>>
    IN  step[16]

\* a / d on size_t, d not 0: long division limb by limb. limbs[j] is the
\* quotient and the remainder of the j most significant limbs of a.
SizeDiv(a, d) ==
    LET limbs[j \in 0..4] ==
            IF j = 0 THEN <<Size(0), Size(0)>>
            ELSE LET before == limbs[j - 1]
                     digit == SizeDivLimb(a[j], before[2], d)
                 IN  <<[before[1] EXCEPT ![j] = digit[1]], digit[2]>>
    IN  limbs[4][1]

\* int(x): the conversion of a size_t value to the 32-bit int.
ToInt(x) ==
    (IF x[3] >= LimbBase \div 2 THEN x[3] - LimbBase ELSE x[3]) * LimbBase + x[4]

\* The values of resolution_, which no function of the class assigns.
Resolutions == {1, 40}

\* The least count whose product with 40 wraps: 2^64 / 40 + 1.
WrapCount == SizeAdd(SizeDiv(ToSize(-1), Size(40)), Size(1))

\* The arguments of Reset and of SetCurrentCount.
ExpectedCounts ==
    {Size(0), Size(1), Size(3), Size(41), Size(1640), Size(65535),
     SizeAdd(WrapCount, Size(1)), ToSize(-1)}

Counts ==
    {Size(0), Size(2), Size(40), Size(41), Size(1639), WrapCount, ToSize(-1)}

ProgressInfos == {"", "Reading "}

\* Nothing printed, no division evaluated.
NoOutput ==
    [printed |-> FALSE, bar_width |-> Size(0), padding |-> Size(0), percent |-> 0,
     divisions |-> 0, divided_by_zero |-> FALSE]

\* a / expected_count_ on size_t. The division by zero is undefined; it is
\* given the value 0 here and kept in the record of the call.
DivideByExpected(a, expected_count) ==
    IF expected_count = Size(0) THEN Size(0) ELSE SizeDiv(a, expected_count)

\* A bug: the bar is complete only above expected_count_.
CountReached_Above(current_count, expected_count) ==
    SizeLess(expected_count, current_count)

\* current_count_ >= expected_count_.
CountReached(current_count, expected_count) ==
    ~SizeLess(current_count, expected_count)

\* SetCurrentCount(n) on a bar: the bar after it and what it printed, the
\* widths of the two std::string arguments as size_t.
SetCurrentCountOn(bar, n) ==
    LET counted == [bar EXCEPT !.current_count_ = n]
        new_progress_pixel ==
            ToSize(ToInt(DivideByExpected(SizeMul(n, bar.resolution_),
                                          bar.expected_count_)))
        percent ==
            ToInt(DivideByExpected(SizeMul(n, 100), bar.expected_count_))
    IN  IF ~bar.active_ THEN [bar |-> counted, out |-> NoOutput]
        ELSE IF CountReached(n, bar.expected_count_)
        THEN [bar |-> counted,
              out |-> [printed |-> TRUE, bar_width |-> ToSize(bar.resolution_),
                       padding |-> Size(0), percent |-> 100, divisions |-> 0,
                       divided_by_zero |-> FALSE]]
        ELSE IF SizeLess(bar.progress_pixel_, new_progress_pixel)
        THEN [bar |-> [counted EXCEPT !.progress_pixel_ = new_progress_pixel],
              out |-> [printed |-> TRUE, bar_width |-> new_progress_pixel,
                       padding |-> SizeSub(ToSize(bar.resolution_ - 1),
                                           new_progress_pixel),
                       percent |-> percent, divisions |-> 2,
                       divided_by_zero |-> bar.expected_count_ = Size(0)]]
        ELSE [bar |-> counted,
              out |-> [NoOutput EXCEPT !.divisions = 1,
                                       !.divided_by_zero = bar.expected_count_ = Size(0)]]

\* operator++ on a bar.
IncrementOn(bar) == SetCurrentCountOn(bar, SizeAdd(bar.current_count_, Size(1)))

\* Reset(expected_count, progress_info, active) on a bar.
ResetOn(bar, expected_count, progress_info, active) ==
    IncrementOn([bar EXCEPT !.expected_count_ = expected_count,
                            !.current_count_ = ToSize(-1),
                            !.progress_info_ = progress_info,
                            !.progress_pixel_ = Size(0),
                            !.active_ = active])

\* The members before the constructor body runs; Reset assigns all of
\* them but resolution_.
RawBar(resolution) ==
    [resolution_ |-> resolution, expected_count_ |-> Size(0),
     current_count_ |-> Size(0), progress_info_ |-> "",
     progress_pixel_ |-> Size(0), active_ |-> FALSE]

PBCall(fn, n, r) == [fn |-> fn, n |-> n, out |-> r.out]

\* ConsoleProgressBar(expected_count, progress_info, active).
ConsoleProgressBar(resolution, expected_count, progress_info, active) ==
    LET r == ResetOn(RawBar(resolution), expected_count, progress_info, active)
    IN  /\ pb_bar = r.bar
        /\ pb_last = PBCall("ConsoleProgressBar", Size(0), r)

\* ConsoleProgressBar(1, "", false).
PBInit == ConsoleProgressBar(40, Size(1), "", FALSE)

PBAnyInit ==
    \E resolution \in Resolutions, expected_count \in ExpectedCounts,
       progress_info \in ProgressInfos, active \in BOOLEAN :
        ConsoleProgressBar(resolution, expected_count, progress_info, active)

\* ConsoleProgressBar::Reset(expected_count, progress_info, active).
Reset(expected_count, progress_info, active) ==
    LET r == ResetOn(pb_bar, expected_count, progress_info, active)
    IN  /\ pb_bar' = r.bar
        /\ pb_last' = PBCall("Reset", Size(0), r)
        /\ UNCHANGED <<stream_vars, index_vars, pf_vars, cu_vars, ew_vars,
                       ht_vars, lg_vars, io_vars, wk_vars>>

\* ConsoleProgressBar::operator++().
Increment ==
    LET r == IncrementOn(pb_bar)
    IN  /\ \/ SizeLess(pb_bar.current_count_, Size(MaxCount))
           \/ pb_bar.current_count_ = ToSize(-1)
        /\ pb_bar' = r.bar
        /\ pb_last' = PBCall("operator++", Size(0), r)
        /\ UNCHANGED <<stream_vars, index_vars, pf_vars, cu_vars, ew_vars,
                       ht_vars, lg_vars, io_vars, wk_vars>>

\* ConsoleProgressBar::SetCurrentCount(n).
SetCurrentCount(n) ==
    LET r == SetCurrentCountOn(pb_bar, n)
    IN  /\ pb_bar' = r.bar
        /\ pb_last' = PBCall("SetCurrentCount", n, r)
        /\ UNCHANGED <<stream_vars, index_vars, pf_vars, cu_vars, ew_vars,
                       ht_vars, lg_vars, io_vars, wk_vars>>

PBNext ==
    \/ \E expected_count \in ExpectedCounts, progress_info \in ProgressInfos,
          active \in BOOLEAN :
          Reset(expected_count, progress_info, active)
    \/ Increment
    \/ \E n \in Counts : SetCurrentCount(n)

RestInit == LoggerInit /\ IOInit /\ WorkerInit /\ PBInit

MoreInit == CudaInit /\ EWInit /\ SizingInit /\ RestInit

Init == StreamInit /\ IndexInit /\ PFInit /\ MoreInit

\* A kernel call is set up.
InitKernelCall ==
    /\ StreamInit /\ IndexInit /\ PFInit /\ CudaInit /\ SizingInit /\ RestInit
    /\ (EWInitUnary \/ EWInitBinary \/ EWInitColumnRow)

SpecEW == InitKernelCall /\ [][EWNext]_vars

\* The library in any build on any machine.
InitAnyBuild ==
    StreamInit /\ IndexInit /\ PFInit /\ CudaAnyInit /\ EWInit /\ SizingInit /\ RestInit

SpecCuda == InitAnyBuild /\ [][CudaNext]_vars

\* A dataset is about to be sized.
InitSizing ==
    StreamInit /\ IndexInit /\ PFInit /\ CudaInit /\ EWInit /\ SizingAnyInit /\ RestInit

SpecSizing == InitSizing /\ [][SizingNext]_vars

\* The Logger of any build.
InitLogger ==
    StreamInit /\ IndexInit /\ PFInit /\ CudaInit /\ EWInit /\ SizingInit /\ LoggerAnyInit
        /\ IOInit /\ WorkerInit /\ PBInit

SpecLogger == InitLogger /\ [][LoggerNext]_vars

SpecIO == Init /\ [][IONext]_vars

\* A progress bar constructed with any arguments.
InitProgressBar ==
    StreamInit /\ IndexInit /\ PFInit /\ CudaInit /\ EWInit /\ SizingInit
        /\ LoggerInit /\ IOInit /\ WorkerInit /\ PBAnyInit

SpecProgressBar == InitProgressBar /\ [][PBNext]_vars

\* A launch on any of the buffers.
InitWorkers ==
    StreamInit /\ IndexInit /\ PFInit /\ CudaInit /\ EWInit /\ SizingInit
        /\ LoggerInit /\ IOInit /\ WorkerAnyInit /\ PBInit

SpecWorkers == InitWorkers /\ [][WorkerNext]_vars

SpecPF == Init /\ [][PFNext]_vars

SpecIndex == Init /\ [][IndexNext]_vars

\* The library built without the CUDA module, on any machine.
CudaModuleOffInit ==
    /\ cu_build = "NoCUDA"
    /\ cu_state \in CUDAStates
    /\ cu_cache = 0
    /\ verbosity_level_ = "Info"
    /\ cu_last = [fn |-> "none", outcome |-> "ok", value |-> NoValue, warned |-> FALSE]

InitModuleOff ==
    StreamInit /\ IndexInit /\ PFInit /\ CudaModuleOffInit /\ EWInit /\ SizingInit
        /\ RestInit

SpecIndexModuleOff == InitModuleOff /\ [][IndexNext]_vars

SpecSession == Init /\ [][SessionNext]_vars

SpecScoped == Init /\ [][ScopedNext]_vars

SpecStream == Init /\ [][StreamNext]_vars

(***************************************************************************)
(* C1: for every host thread and every nesting of scoped stream overrides, *)
(* while an override for stream s is the innermost active one GetStream()  *)
(* returns s; with no override active it returns the default stream; when  *)
(* an override exits GetStream() returns the value it had immediately      *)
(* before that override was entered; and entering or exiting an override   *)
(* never changes GetDevice().                                              *)
(***************************************************************************)
C1_Step ==
    \A t \in Threads :
        /\ scoped'[t] # <<>> =>
              GetStream(t)' = scoped'[t][Len(scoped'[t])].stream
        /\ scoped'[t] = <<>> => GetStream(t)' = GetDefaultStream
        /\ Len(scoped'[t]) < Len(scoped[t]) =>
              GetStream(t)' = scoped[t][Len(scoped[t])].prev_stream_
        /\ Len(scoped'[t]) > Len(scoped[t]) =>
              scoped'[t][Len(scoped'[t])].prev_stream_ = GetStream(t)
        /\ scoped'[t] # scoped[t] => GetDevice(t)' = GetDevice(t)

C1_ScopedStreamRestores == [][C1_Step]_vars

\* A thread has left an inner override and is back on the stream of the
\* outer, still active, override, which is not the default stream.
C1_Witness ==
    \E t \in Threads :
        /\ last_op = [op |-> "Exit", thread |-> t]
        /\ Len(scoped[t]) = 1
        /\ scoped[t][1].stream # GetDefaultStream
        /\ GetStream(t) = scoped[t][1].stream
        /\ GetDevice(t) # 0

(***************************************************************************)
(* C2: the current stream is tracked per host thread: a SetStream or a     *)
(* scoped override performed by one thread never changes what GetStream()  *)
(* returns in any other thread, and a thread that has not yet set a stream *)
(* observes the default stream.                                            *)
(***************************************************************************)
C2_StreamOpBy(t) ==
    \/ \E s \in Streams : SetStream(t, s)
    \/ \E s \in Streams : CUDAScopedStream_Enter(t, s)
    \/ CUDAScopedStream_Exit(t)

C2_Step ==
    \A t \in Threads :
        /\ C2_StreamOpBy(t) =>
              \A u \in Threads \ {t} : GetStream(u)' = GetStream(u)
        /\ ~has_set'[t] => GetStream(t)' = GetDefaultStream

C2_StreamPerThread == [][C2_Step]_vars

\* Thread u is inside an override on the created stream and still observes
\* it right after thread t has set its own stream to the default one.
C2_Witness ==
    \E t, u \in Threads :
        /\ t # u
        /\ last_op = [op |-> "SetStream", thread |-> t]
        /\ GetStream(t) = CUDAStream_Default
        /\ scoped[u] # <<>>
        /\ GetStream(u) = 1


(***************************************************************************)
(* The states of a FixedRadiusIndex. built records that some SetTensorData *)
(* call has returned; Built says that the hash table of the current        *)
(* dataset is in place.                                                    *)
(***************************************************************************)
Searches == {"SearchRadius", "SearchHybrid"}

Built == built /\ hash_table_index_.initialized /\ hash_table_cell_splits_.initialized

\* The last call raised: no device routine was invoked, nothing was returned.
RaisedBeforeKernel ==
    /\ last_call.outcome = "error"
    /\ last_call.kernel_calls = <<>>
    /\ last_call.result = NoResult

(***************************************************************************)
(* C3: SearchRadius or SearchHybrid called on a FixedRadiusIndex on which  *)
(* no SetTensorData call has succeeded raises an error, invokes no search  *)
(* kernel and returns no result tensors.                                   *)
(***************************************************************************)
C3_UnbuiltSearchRaises ==
    (~built /\ last_call.fn \in Searches) => RaisedBeforeKernel

\* A default-constructed index was searched with a CUDA Float32 (N, 2)
\* query and a positive radius, and the call raised.
C3_Witness ==
    /\ ~built
    /\ dataset_points_ = NullTensor
    /\ last_call.fn = "SearchRadius"
    /\ last_call.args.radius > 0
    /\ last_call.args.query_points.device = CUDA0
    /\ last_call.args.query_points.dtype = "Float32"
    /\ last_call.args.query_points.shape = <<1, 2>>
    /\ last_call.outcome = "error"

(***************************************************************************)
(* C4: SetTensorData(dataset_points, radius) raises whenever dataset_points*)
(* is not on a CUDA device or radius <= 0, and a step takes the index to   *)
(* the Built state only as a SetTensorData call with a CUDA dataset and a  *)
(* positive radius.                                                        *)
(***************************************************************************)
C4_Step ==
    /\ (/\ last_call'.fn = "SetTensorData"
        /\ \/ last_call'.args.dataset_points.device.type # "CUDA"
           \/ last_call'.args.radius <= 0)
          => (last_call'.outcome = "error" /\ last_call'.kernel_calls = <<>>)
    /\ ((built' /\ ~built) \/ (Built' /\ ~Built))
          => /\ last_call'.fn = "SetTensorData"
             /\ last_call'.outcome = "ok"
             /\ last_call'.args.dataset_points.device.type = "CUDA"
             /\ last_call'.args.radius > 0

C4_SetTensorDataPreconditions == [][C4_Step]_vars

\* SetTensorData with a Float32 dataset in host memory and a positive
\* radius raised, and the index is still not built.
C4_Witness ==
    /\ last_call.fn = "SetTensorData"
    /\ last_call.args.dataset_points.device = CPU0
    /\ last_call.args.dataset_points.dtype = "Float32"
    /\ last_call.args.radius > 0
    /\ last_call.outcome = "error"
    /\ ~built

(***************************************************************************)
(* C5: on a Built index a SearchRadius or SearchHybrid call, successful or *)
(* failing, leaves dataset_points_, points_row_splits_, hash_table_splits_,*)
(* hash_table_cell_splits_ and hash_table_index_ unchanged, and a search   *)
(* repeated with the same arguments has the same outcome and returns the   *)
(* same result.                                                            *)
(***************************************************************************)
C5_Step ==
    /\ (Built /\ last_call'.fn \in Searches)
          => (UNCHANGED index_fields /\ Built')
    /\ (/\ Built
        /\ last_call.fn \in Searches
        /\ last_call'.fn = last_call.fn
        /\ last_call'.args = last_call.args)
          => /\ last_call'.outcome = last_call.outcome
             /\ last_call'.error = last_call.error
             /\ last_call'.result = last_call.result

C5_SearchLeavesIndexUnchanged == [][C5_Step]_vars

\* A search on a Built index found a neighbour for a query tensor that is
\* not the dataset tensor, and the dataset is still the one that was set.
C5_Witness ==
    /\ Built
    /\ last_call.fn = "SearchRadius"
    /\ last_call.outcome = "ok"
    /\ last_call.args.query_points # dataset_points_
    /\ Len(last_call.result.neighbors_index) > 0
    /\ NNSIndex_GetDatasetSize(dataset_points_) > 0

(***************************************************************************)
(* C6: the hash build of SetTensorData, the radius search of SearchRadius  *)
(* and the pair sort of SearchRadius(sort = true) each invoke their device *)
(* routine exactly twice: first with a null scratch pointer, which reports *)
(* the scratch byte size, then with a scratch buffer of exactly that many  *)
(* bytes, both times with the same remaining arguments.                    *)
(***************************************************************************)
C6_TwoPassAt(calls, i, fn) ==
    /\ calls[i].fn = fn
    /\ calls[i + 1].fn = fn
    /\ calls[i].temp_ptr.null
    /\ ~calls[i + 1].temp_ptr.null
    /\ calls[i + 1].temp_ptr.bytes = calls[i].temp_size
    /\ calls[i + 1].temp_size = calls[i].temp_size
    /\ calls[i + 1].args = calls[i].args

C6_TwoPassProtocol ==
    LET calls == last_call.kernel_calls
    IN  /\ (last_call.fn = "SetTensorData" /\ last_call.outcome = "ok")
              => /\ Len(calls) = 2
                 /\ C6_TwoPassAt(calls, 1, "BuildSpatialHashTableCUDA")
        /\ (last_call.fn = "SearchRadius" /\ last_call.outcome = "ok")
              => /\ Len(calls) = (IF last_call.args.sort THEN 4 ELSE 2)
                 /\ C6_TwoPassAt(calls, 1, "FixedRadiusSearchCUDA")
                 /\ last_call.args.sort => C6_TwoPassAt(calls, 3, "SortPairs")

\* A sorted radius search whose search routine asked for scratch memory
\* and whose sort routine asked for a different amount.
C6_Witness ==
    /\ last_call.fn = "SearchRadius"
    /\ last_call.outcome = "ok"
    /\ last_call.args.sort
    /\ Len(last_call.kernel_calls) = 4
    /\ last_call.kernel_calls[2].temp_ptr.bytes > 0
    /\ last_call.kernel_calls[4].temp_ptr.bytes = 0

(***************************************************************************)
(* C7: SearchHybrid invokes its device routine twice, first with a null    *)
(* scratch buffer and then with a scratch buffer of exactly the reported   *)
(* size. The code does not: see C7_HybridSingleCall.                       *)
(***************************************************************************)
C7_HybridTwoPass ==
    (last_call.fn = "SearchHybrid" /\ last_call.outcome = "ok")
        => /\ Len(last_call.kernel_calls) = 2
           /\ C6_TwoPassAt(last_call.kernel_calls, 1, "HybridSearchCUDA")

(***************************************************************************)
(* What the code does in place of C7: a SearchHybrid call that returns has *)
(* invoked HybridSearchCUDA exactly once, with no scratch pointer and no   *)
(* scratch size among its arguments, and no other device routine; the      *)
(* two-pass protocol is followed by the hash build, the radius search and  *)
(* the pair sort only.                                                     *)
(***************************************************************************)
C7_HybridSingleCall ==
    LET calls == last_call.kernel_calls
    IN  /\ (last_call.fn = "SearchHybrid" /\ last_call.outcome = "ok")
              => /\ Len(calls) = 1
                 /\ calls[1].fn = "HybridSearchCUDA"
                 /\ DOMAIN calls[1] = {"fn", "args"}
        /\ \A i \in 1..Len(calls) :
              "temp_ptr" \in DOMAIN calls[i]
                  <=> calls[i].fn \in {"BuildSpatialHashTableCUDA",
                                       "FixedRadiusSearchCUDA", "SortPairs"}

\* A hybrid search on a Built index returned a neighbour.
C7_Witness ==
    /\ Built
    /\ last_call.fn = "SearchHybrid"
    /\ last_call.outcome = "ok"
    /\ Len(last_call.kernel_calls) = 1
    /\ \E i \in 1..Len(last_call.result.neighbour_counts) :
          last_call.result.neighbour_counts[i] > 0

(***************************************************************************)
(* C8: on a Built index SearchRadius and SearchHybrid raise, before any    *)
(* search kernel is invoked and without returning a result, whenever the   *)
(* dtype of the query differs from the dtype of the dataset, its shape is  *)
(* not (N, dimension of the dataset), its device differs from the device   *)
(* of the dataset, or radius <= 0.                                         *)
(***************************************************************************)
C8_Mismatch(query_points, radius) ==
    \/ query_points.dtype # dataset_points_.dtype
    \/ Len(query_points.shape) # 2
    \/ query_points.shape[2] # dataset_points_.shape[2]
    \/ query_points.device # dataset_points_.device
    \/ radius <= 0

C8_SearchPreconditions ==
    (/\ Built
     /\ last_call.fn \in Searches
     /\ C8_Mismatch(last_call.args.query_points, last_call.args.radius))
        => RaisedBeforeKernel

\* A search on a Built index raised for a query that differs from the
\* dataset only in its device.
C8_Witness ==
    /\ Built
    /\ last_call.fn = "SearchRadius"
    /\ last_call.args.radius > 0
    /\ last_call.args.query_points.dtype = dataset_points_.dtype
    /\ Len(last_call.args.query_points.shape) = 2
    /\ last_call.args.query_points.shape[2] = dataset_points_.shape[2]
    /\ last_call.args.query_points.device # dataset_points_.device
    /\ RaisedBeforeKernel

(***************************************************************************)
(* C9: ParallelFor(n, grain_size, func) runs every workload in the         *)
(* invoking thread when n <= grain_size, and shares the workloads among a  *)
(* team only when n > grain_size: the team then has the size the runtime   *)
(* grants, at most EstimateMaxThreads(), and every member of it gets a     *)
(* share. With the grain size SMALL_OP_GRAIN_SIZE = 32767 of the           *)
(* elementwise kernels, 32767 workloads run in the invoking thread and     *)
(* 32768 are shared among the team.                                        *)
(***************************************************************************)
C9_Owners ==
    {pf_chunks[c].owner : c \in {b \in DOMAIN pf_chunks : pf_chunks[b].hi > pf_chunks[b].lo}}

C9_GrainThreshold ==
    /\ SMALL_OP_GRAIN_SIZE = 32767
    /\ (pf_pc # "idle" /\ pf_call.fn = "ParallelFor(n, grain_size, func)")
          => /\ pf_call.n <= pf_call.grain_size
                  => (pf_team = 1 /\ C9_Owners \subseteq {1})
             /\ pf_call.n > pf_call.grain_size
                  => /\ pf_team \in 1..pf_call.max_threads
                     /\ C9_Owners = 1..(IF pf_call.n < pf_team THEN pf_call.n ELSE pf_team)
             /\ (pf_call.grain_size = SMALL_OP_GRAIN_SIZE /\ pf_call.n = 32767)
                  => C9_Owners = {1}
             /\ (/\ pf_call.grain_size = SMALL_OP_GRAIN_SIZE
                 /\ pf_call.n = 32768)
                  => /\ C9_Owners = 1..pf_team
                     /\ \A c \in DOMAIN pf_chunks :
                           pf_chunks[c].hi - pf_chunks[c].lo >= 32768 \div pf_team

\* An elementwise kernel over 32768 workloads is in its parallel region,
\* and two team members have each run workloads of their share.
C9_Witness ==
    /\ pf_pc = "forked"
    /\ pf_call.grain_size = SMALL_OP_GRAIN_SIZE
    /\ pf_call.n = 32768
    /\ \E a, b \in DOMAIN pf_chunks :
          /\ pf_chunks[a].owner # pf_chunks[b].owner
          /\ pf_chunks[a].next > pf_chunks[a].lo
          /\ pf_chunks[b].next > pf_chunks[b].lo

(***************************************************************************)
(* C10: whatever the distribution of the iterations over the team, both    *)
(* ParallelFor overloads invoke func(i) at most once for each i, for no i  *)
(* outside [0, n), and exactly once for each i in [0, n) by the time the   *)
(* call returns to the invoking thread; for n <= 0 func is never invoked.  *)
(***************************************************************************)
C10_Invocations(i) ==
    Cardinality({c \in DOMAIN pf_chunks : pf_chunks[c].lo <= i /\ i < pf_chunks[c].next})

C10_ExactlyOnce ==
    /\ \A c \in DOMAIN pf_chunks :
          pf_chunks[c].next > pf_chunks[c].lo
              => (0 <= pf_chunks[c].lo /\ pf_chunks[c].next <= pf_call.n)
    /\ \A i \in 0..(pf_call.n - 1) : C10_Invocations(i) <= 1
    /\ pf_pc = "returned" => \A i \in 0..(pf_call.n - 1) : C10_Invocations(i) = 1
    /\ pf_call.n <= 0 => \A c \in DOMAIN pf_chunks : pf_chunks[c].next = pf_chunks[c].lo

\* ParallelFor(3, func) has returned after iterations 0 and 2 ran in the
\* invoking thread and iteration 1 in another team member.
C10_Witness ==
    /\ pf_pc = "returned"
    /\ pf_call.fn = "ParallelFor(n, func)"
    /\ pf_call.n = 3
    /\ pf_chunks[1].owner = 1
    /\ pf_chunks[2].owner = 2
    /\ pf_chunks[3].owner = 1
    /\ \A i \in 0..2 : C10_Invocations(i) = 1

(***************************************************************************)
(* C11: when the library is built without the CUDA module or               *)
(* CUDAState::GetInstance() throws, DeviceCount() returns 0, IsAvailable() *)
(* returns false and ReleaseCache() returns leaving the cache as it was,   *)
(* none of them raising; and in every configuration IsAvailable() is true  *)
(* exactly when DeviceCount() > 0.                                         *)
(***************************************************************************)
C11_NoAccelerator == cu_build = "NoCUDA" \/ cu_state.throws

C11_Step ==
    /\ (C11_NoAccelerator /\ cu_last'.fn # "none")
          => /\ cu_last'.outcome = "ok"
             /\ cu_last'.fn \in {"DeviceCount", "open3d_core_cuda_device_count"}
                   => cu_last'.value = 0
             /\ cu_last'.fn = "IsAvailable" => cu_last'.value = FALSE
             /\ cu_cache' = cu_cache
    /\ IsAvailable(cu_build, cu_state).outcome = "ok"
    /\ DeviceCount(cu_build, cu_state).outcome = "ok"
    /\ IsAvailable(cu_build, cu_state).value
          <=> DeviceCount(cu_build, cu_state).value > 0
    /\ cu_last'.fn = "IsAvailable"
          => (cu_last'.value <=> DeviceCount(cu_build, cu_state).value > 0)

C11_QueriesSafeWithoutAccelerator == [][C11_Step]_vars

\* In a CUDA build whose CUDAState::GetInstance() throws on a machine with
\* devices, IsAvailable() has returned false.
C11_Witness ==
    /\ cu_build = "CUDACached"
    /\ cu_state.throws
    /\ cu_state.num_devices > 0
    /\ cu_last.fn = "IsAvailable"
    /\ cu_last.outcome = "ok"
    /\ cu_last.value = FALSE

(***************************************************************************)
(* C12: UnaryEWCPU and BinaryEWCPU raise an error for every op code they   *)
(* do not implement and for every dtype outside the dispatch set of the    *)
(* branch chosen; BinaryEWCPU called with an op code that is neither a     *)
(* boolean or comparison op nor one of Add, Sub, Mul, Div raises an error  *)
(* and does not return with dst untouched.                                 *)
(***************************************************************************)
C12_Unsupported ==
    \/ /\ ew_call.fn = "UnaryEWCPU"
       /\ \/ ew_call.op_code \notin UnaryEWOpCodes
          \/ ew_call.op_code = "LogicalNot" /\ ~DispatchWithBoolOk(ew_lhs.dtype)
          \/ ew_call.op_code # "LogicalNot" /\ ~DispatchOk(ew_lhs.dtype)
    \/ /\ ew_call.fn = "BinaryEWCPU"
       /\ \/ ew_call.op_code \notin BinaryEWOpCodes
          \/ /\ ew_call.op_code \in s_boolean_binary_ew_op_codes
             /\ ~DispatchWithBoolOk(ew_lhs.dtype)
          \/ /\ ew_call.op_code \notin s_boolean_binary_ew_op_codes
             /\ ~DispatchOk(ew_lhs.dtype)

C12_UnsupportedRaises ==
    C12_Unsupported => (ew_call.outcome = "error" /\ ew_call.launches = <<>>)

(***************************************************************************)
(* C13: UnaryEWCPU with op Sqrt, Sin, Cos, Exp, IsNan, IsInf or IsFinite   *)
(* and a source dtype other than Float32 and Float64 fails with an error   *)
(* and launches no element kernel.                                         *)
(***************************************************************************)
C13_FloatOnlyOps == {"Sqrt", "Sin", "Cos", "Exp", "IsNan", "IsInf", "IsFinite"}

C13_FloatOpsRejectNonFloat ==
    (/\ ew_call.fn = "UnaryEWCPU"
     /\ ew_call.op_code \in C13_FloatOnlyOps
     /\ ew_lhs.dtype \notin {"Float32", "Float64"})
        => /\ ew_call.outcome = "error"
           /\ ew_call.launches = <<>>
           /\ ew_dst = EWOutput(ew_dst.dtype, ew_dst.shape, ew_dst.contiguous)

\* Sqrt of an Int32 tensor into an Int32 tensor of the same shape was
\* refused by assert_dtype_is_float.
C13_Witness ==
    /\ ew_call.fn = "UnaryEWCPU"
    /\ ew_call.op_code = "Sqrt"
    /\ ew_lhs.dtype = "Int32"
    /\ ew_dst.dtype = "Int32"
    /\ ew_dst.shape = ew_lhs.shape
    /\ ew_call.outcome = "error"
    /\ ew_call.error = "Only supports Float32 and Float64."

(***************************************************************************)
(* C14: for src and dst contiguous, of equal shape and of dtypes the copy  *)
(* supports, CopyCPU(src, dst) leaves in every element of dst the cast of  *)
(* the element of src to the dtype of dst and leaves src unchanged; when   *)
(* the dtypes are equal the copy is one raw memory copy of                 *)
(* ByteSize * NumElements bytes, with no kernel launch, and dst is what    *)
(* the per-element path gives.                                             *)
(***************************************************************************)
C14_Step ==
    (/\ ew_call = NoCall
     /\ ew_call'.fn = "CopyCPU"
     /\ ew_lhs.contiguous
     /\ ew_dst.contiguous
     /\ ew_lhs.shape = ew_dst.shape
     /\ DispatchWithBoolOk(ew_lhs.dtype)
     /\ DispatchWithBoolOk(ew_dst.dtype))
        => /\ ew_call'.outcome = "ok"
           /\ ew_dst'.dtype = ew_dst.dtype
           /\ ew_dst'.shape = ew_dst.shape
           /\ \A i \in 1..NumElements(ew_dst.shape) :
                 ew_dst'.data[i] = Cast(ew_lhs.data[i], ew_lhs.dtype, ew_dst.dtype)
           /\ ew_lhs' = ew_lhs
           /\ ew_lhs.dtype = ew_dst.dtype
                 => /\ ew_call'.path = "memcpy"
                    /\ ew_call'.launches = <<>>
                    /\ Memcpy_NumBytes(ew_lhs.dtype, ew_lhs.shape)
                          = Dtype_ByteSize(ew_lhs.dtype) * NumElements(ew_lhs.shape)
                    /\ ew_dst' = CopyCPU_General(ew_lhs, ew_dst).dst
           /\ ew_lhs.dtype # ew_dst.dtype
                 => /\ ew_call'.path = "general"
                    /\ ew_call'.launches
                          = <<Launch("CPUCopyElementKernel", NumElements(ew_dst.shape))>>

C14_CopyCasts == [][C14_Step]_vars

\* The Float32 tensor (-1.5, 0.5) was copied to an Int32 tensor, which
\* holds (-1, 0).
C14_Witness ==
    /\ ew_call.fn = "CopyCPU"
    /\ ew_call.outcome = "ok"
    /\ ew_lhs = EWTensor("Float32", <<2>>, TRUE, <<-3, 1>>)
    /\ ew_dst = EWTensor("Int32", <<2>>, TRUE, <<-1, 0>>)

(***************************************************************************)
(* C15: when src has one element of a dtype other than the object dtype    *)
(* and dst is contiguous with more than one element, CopyCPU takes the     *)
(* scalar fill, which writes the cast of the value of src to every slot   *)
(* of dst; dst is then what the general copy driven by the Indexer gives.  *)
(***************************************************************************)
C15_Step ==
    (/\ ew_call = NoCall
     /\ ew_call'.fn = "CopyCPU"
     /\ NumElements(ew_lhs.shape) = 1
     /\ ~Dtype_IsObject(ew_lhs.dtype)
     /\ ew_dst.contiguous
     /\ NumElements(ew_dst.shape) > 1
     /\ DispatchWithBoolOk(ew_dst.dtype))
        => /\ ew_call'.outcome = "ok"
           /\ ew_call'.path = "scalar-fill"
           /\ ew_call'.launches
                 = <<Launch("scalar-fill", NumElements(ew_dst.shape))>>
           /\ \A w \in 1..NumElements(ew_dst.shape) :
                 ew_dst'.data[w] = Cast(ew_lhs.data[1], ew_lhs.dtype, ew_dst.dtype)
           /\ ew_dst' = CopyCPU_General(ew_lhs, ew_dst).dst
           /\ ew_lhs' = ew_lhs

C15_ScalarFill == [][C15_Step]_vars

\* The one Float32 element -1.5 was copied to an Int32 tensor of two
\* elements, which holds (-1, -1).
C15_Witness ==
    /\ ew_call.fn = "CopyCPU"
    /\ ew_call.path = "scalar-fill"
    /\ ew_lhs = EWTensor("Float32", <<1>>, TRUE, <<-3>>)
    /\ ew_dst = EWTensor("Int32", <<2>>, TRUE, <<-1, -1>>)

(***************************************************************************)
(* C16: an element of the object dtype never goes through a typed cast.    *)
(* CopyCPU with a src of the object dtype takes the raw memory copy or the *)
(* general path with the byte copy kernel, never the scalar fill and never *)
(* the typed copy kernel, and when it returns every element of dst is the  *)
(* ByteSize bytes of the element of src it corresponds to.                 *)
(***************************************************************************)
C16_Step ==
    (/\ ew_call = NoCall
     /\ ew_call'.fn = "CopyCPU"
     /\ Dtype_IsObject(ew_lhs.dtype))
        => /\ ew_call'.path \in {"memcpy", "general"} \/ ew_call'.outcome = "error"
           /\ ew_call'.path = "memcpy" <=> CopyCPU_MemcpySelected(ew_lhs, ew_dst)
           /\ \A k \in DOMAIN ew_call'.launches :
                 ew_call'.launches[k].kernel = "CPUCopyObjectElementKernel"
           /\ ew_call'.outcome = "ok"
                 => \A w \in 1..NumElements(ew_dst.shape) :
                       /\ Len(ew_dst'.data[w]) = Dtype_ByteSize(ew_lhs.dtype)
                       /\ ew_dst'.data[w]
                             = ew_lhs.data[Indexer_GetInputPtr(ew_lhs, ew_dst, w - 1)]
           /\ ew_call'.outcome = "error"
                 => /\ ~CanBeBrocastedToShape(ew_lhs.shape, ew_dst.shape)
                    /\ ew_dst' = ew_dst
           /\ ew_lhs' = ew_lhs

C16_ObjectCopiedAsBytes == [][C16_Step]_vars

\* The one object element with the bytes (3, 4) was copied to a contiguous
\* tensor of two object elements by the byte copy kernel.
C16_Witness ==
    /\ ew_call.fn = "CopyCPU"
    /\ ew_call.path = "general"
    /\ ew_call.launches = <<Launch("CPUCopyObjectElementKernel", 2)>>
    /\ ew_lhs = EWTensor("Object", <<1>>, TRUE, << <<3, 4>> >>)
    /\ ew_dst = EWTensor("Object", <<2>>, TRUE, << <<3, 4>>, <<3, 4>> >>)

\* The comparison ops, and the scalar comparison each one stands for.
C17_ComparisonOps == {"Eq", "Ne", "Gt", "Lt", "Ge", "Le"}

C17_Compares(op_code, a, b) ==
    \/ op_code = "Gt" /\ a > b
    \/ op_code = "Lt" /\ a < b
    \/ op_code = "Ge" /\ ~(a < b)
    \/ op_code = "Le" /\ ~(a > b)
    \/ op_code = "Eq" /\ a = b
    \/ op_code = "Ne" /\ ~(a = b)

\* BinaryEWCPU was called with a comparison op on inputs of one dtype that
\* the dispatch accepts and a Bool dst.
C17_ComparisonCall ==
    /\ ew_call.fn = "BinaryEWCPU"
    /\ ew_call.op_code \in C17_ComparisonOps
    /\ ew_lhs.dtype = ew_rhs.dtype
    /\ DispatchWithBoolOk(ew_lhs.dtype)
    /\ ew_dst.dtype = "Bool"

\* Every element of dst is the boolean result of the comparison of the
\* elements of lhs and rhs that broadcast to it.
C17_ExactResult ==
    /\ ew_call.outcome = "ok"
    /\ ew_call.launches = <<Launch(ew_call.op_code, NumElements(ew_dst.shape))>>
    /\ \A w \in 1..NumElements(ew_dst.shape) :
          LET a == ew_lhs.data[Indexer_GetInputPtr(ew_lhs, ew_dst, w - 1)]
              b == ew_rhs.data[Indexer_GetInputPtr(ew_rhs, ew_dst, w - 1)]
          IN  ew_dst.data[w] = (IF C17_Compares(ew_call.op_code, a, b) THEN 1 ELSE 0)

\* As stated: the Indexer has the policy INPUT_SAME_OUTPUT_BOOL whatever
\* the dtype of the inputs is. Bool inputs with a Bool dst refute it.
C17_AlwaysOutputBoolPolicy ==
    C17_ComparisonCall
        => /\ ew_call.policy = "INPUT_SAME_OUTPUT_BOOL"
           /\ C17_ExactResult

(***************************************************************************)
(* C17: for a comparison op, lhs and rhs of one dtype and a Bool dst,      *)
(* BinaryEWCPU writes to every element of dst the boolean result of the    *)
(* scalar comparison of the corresponding elements of lhs and rhs; its     *)
(* Indexer has the policy INPUT_SAME_OUTPUT_BOOL when the inputs are not   *)
(* Bool, and ALL_SAME when they are Bool, the dtype of dst.                *)
(***************************************************************************)
C17_ComparisonExact ==
    C17_ComparisonCall
        => /\ ew_call.policy = (IF ew_lhs.dtype = "Bool" THEN "ALL_SAME"
                                 ELSE "INPUT_SAME_OUTPUT_BOOL")
           /\ C17_ExactResult

\* Ge on the Int32 tensors (-1, 2) and (0, 2) gave the Bool tensor
\* (false, true).
C17_Witness ==
    /\ ew_call.fn = "BinaryEWCPU"
    /\ ew_call.op_code = "Ge"
    /\ ew_call.policy = "INPUT_SAME_OUTPUT_BOOL"
    /\ ew_lhs = EWTensor("Int32", <<2>>, TRUE, <<-1, 2>>)
    /\ ew_rhs = EWTensor("Int32", <<2>>, TRUE, <<0, 2>>)
    /\ ew_dst = EWTensor("Bool", <<2>>, TRUE, <<0, 1>>)

(***************************************************************************)
(* C18: BinaryEWCPU(Add) on a of shape (3, 1), b of shape (1, 4) and a dst *)
(* of shape (3, 4) leaves out[i][j] = a[i][0] + b[0][j] for i in 0..2 and  *)
(* j in 0..3, with one launch of the Add kernel over the 12 output         *)
(* elements; a and b keep their shapes and their elements.                 *)
(***************************************************************************)
C18_Step ==
    (/\ ew_call = NoCall
     /\ ew_call'.fn = "BinaryEWCPU"
     /\ ew_call'.op_code = "Add"
     /\ ew_lhs.shape = <<3, 1>>
     /\ ew_rhs.shape = <<1, 4>>
     /\ ew_dst.shape = <<3, 4>>
     /\ ew_dst.dtype = ew_lhs.dtype)
        => /\ ew_call'.outcome = "ok"
           /\ ew_call'.launches = <<Launch("Add", 12)>>
           /\ ew_dst'.shape = <<3, 4>>
           /\ \A i \in 0..2 : \A j \in 0..3 :
                 ew_dst'.data[4 * i + j + 1] = ew_lhs.data[i + 1] + ew_rhs.data[j + 1]
           /\ ew_lhs' = ew_lhs
           /\ ew_rhs' = ew_rhs

C18_BroadcastAdd == [][C18_Step]_vars

\* The column (0, 2, 2) was added to the row (0, 2, 0, 2).
C18_Witness ==
    /\ ew_call.fn = "BinaryEWCPU"
    /\ ew_call.op_code = "Add"
    /\ ew_lhs = EWTensor("Int64", <<3, 1>>, TRUE, <<0, 2, 2>>)
    /\ ew_rhs = EWTensor("Int64", <<1, 4>>, TRUE, <<0, 2, 0, 2>>)
    /\ ew_dst = EWTensor("Int64", <<3, 4>>, TRUE,
                         <<0, 2, 0, 2, 2, 4, 2, 4, 2, 4, 2, 4>>)

(***************************************************************************)
(* C19: for every number num_points >= 0 of dataset points, the hash table *)
(* size SetTensorData computes is min(max(floor(num_points / 32), 1),      *)
(* 33554432): 1 below 64 points, 33554432 from 32 * 33554432 points on,    *)
(* and in between the q with 32 * q <= num_points < 32 * (q + 1).          *)
(***************************************************************************)
C19_HashTableSizeClamped ==
    ht_sizing.computed
        => LET n == ht_sizing.num_dataset_points
               size == ht_sizing.hash_table_size
           IN  /\ 1 <= size
               /\ size <= 33554432
               /\ n < 64 => size = 1
               /\ n >= 32 * 33554432 => size = 33554432
               /\ (64 <= n /\ n < 32 * 33554432)
                     => 32 * size <= n /\ n < 32 * (size + 1)

\* The size of the hash table of an empty dataset was computed: 1.
C19_Witness ==
    ht_sizing = [num_dataset_points |-> 0, computed |-> TRUE, hash_table_size |-> 1]

(***************************************************************************)
(* C20: in every Built state of a FixedRadiusIndex, hash_table_cell_splits *)
(* has hash_table_size + 1 elements and is non-decreasing,                 *)
(* hash_table_index has as many elements as the dataset has points,        *)
(* points_row_splits is (0, num_points) and hash_table_splits is           *)
(* (0, hash_table_size).                                                   *)
(***************************************************************************)
C20_HashTableShape ==
    Built
        => LET num_points == NNSIndex_GetDatasetSize(dataset_points_)
               hash_table_size == HashTableSize(num_points)
               cell_splits == hash_table_cell_splits_.data
           IN  /\ hash_table_cell_splits_.shape = <<hash_table_size + 1>>
               /\ Len(cell_splits) = hash_table_size + 1
               /\ \A c \in 1..hash_table_size : cell_splits[c] <= cell_splits[c + 1]
               /\ hash_table_index_.shape = <<num_points>>
               /\ Len(hash_table_index_.data) = num_points
               /\ points_row_splits_ = <<0, num_points>>
               /\ hash_table_splits_ = <<0, hash_table_size>>

\* An index was built on a dataset of one point: its one cell starts at 0
\* and ends at 1.
C20_Witness ==
    /\ Built
    /\ NNSIndex_GetDatasetSize(dataset_points_) = 1
    /\ hash_table_cell_splits_.data = <<0, 1>>
    /\ hash_table_index_.data = <<0>>
    /\ points_row_splits_ = <<0, 1>>
    /\ hash_table_splits_ = <<0, 1>>

\* The last call was a SearchRadius call that returned.
C21_RadiusSearchReturned ==
    /\ last_call.fn = "SearchRadius"
    /\ last_call.outcome = "ok"

(***************************************************************************)
(* C21: every SearchRadius call that returns, over num_queries query       *)
(* points, returns row splits of length num_queries + 1 that start at 0,   *)
(* are non-decreasing and end at the common length of the index and the    *)
(* distance array; the segment of query i holds each dataset point within  *)
(* Euclidean distance radius of query i once, and no other point.          *)
(***************************************************************************)
C21_RowSplitsPartitionNeighbors ==
    C21_RadiusSearchReturned
        => LET queries == last_call.args.query_points.data
               radius == last_call.args.radius
               num_queries == last_call.args.query_points.shape[1]
               points == dataset_points_.data
               indices == last_call.result.neighbors_index
               distances == last_call.result.neighbors_distance
               row_splits == last_call.result.neighbors_row_splits
               segment(i) == (row_splits[i] + 1)..row_splits[i + 1]
               near(i) == { j \in 1..Len(points) :
                              Distance(points[j], queries[i]) <= radius * radius }
           IN  /\ Len(row_splits) = num_queries + 1
               /\ row_splits[1] = 0
               /\ \A i \in 1..num_queries : row_splits[i] <= row_splits[i + 1]
               /\ row_splits[num_queries + 1] = Len(indices)
               /\ Len(distances) = Len(indices)
               /\ \A i \in 1..num_queries :
                     /\ { indices[k] + 1 : k \in segment(i) } = near(i)
                     /\ row_splits[i + 1] - row_splits[i] = Cardinality(near(i))

\* Two queries on a dataset of two points, radius 1: the first query has
\* both points within the radius, the second only one of them.
C21_Witness ==
    /\ C21_RadiusSearchReturned
    /\ dataset_points_.data = << <<0, 0>>, <<0, 1>> >>
    /\ last_call.args.query_points.data = << <<0, 0>>, <<1, 1>> >>
    /\ last_call.args.radius = 1
    /\ last_call.result.neighbors_row_splits = <<0, 2, 3>>
    /\ last_call.result.neighbors_index = <<0, 1, 1>>

\* The (index, distance) pair at position k of a SearchRadius result.
C22_Pair(result, k) ==
    <<result.neighbors_index[k], result.neighbors_distance[k]>>

(***************************************************************************)
(* C22: when a SearchRadius call with sort = false is followed, on the     *)
(* same Built index, by the call with the same query points and radius and *)
(* sort = true, the two calls return the same row splits; within every     *)
(* row-split segment the sorted call returns distances in non-decreasing   *)
(* order and the same multiset of (index, distance) pairs as the unsorted  *)
(* call.                                                                   *)
(***************************************************************************)
C22_Step ==
    (/\ C21_RadiusSearchReturned
     /\ ~last_call.args.sort
     /\ last_call'.fn = "SearchRadius"
     /\ last_call'.outcome = "ok"
     /\ last_call'.args.sort
     /\ last_call'.args.query_points = last_call.args.query_points
     /\ last_call'.args.radius = last_call.args.radius
     /\ index_fields' = index_fields)
        => LET unsorted == last_call.result
               sorted == last_call'.result
               row_splits == unsorted.neighbors_row_splits
               segment(i) == (row_splits[i] + 1)..row_splits[i + 1]
           IN  /\ sorted.neighbors_row_splits = row_splits
               /\ Len(sorted.neighbors_index) = Len(unsorted.neighbors_index)
               /\ Len(sorted.neighbors_distance) = Len(unsorted.neighbors_distance)
               /\ \A i \in 1..(Len(row_splits) - 1) :
                     /\ \A k \in segment(i) :
                           k + 1 \in segment(i)
                               => sorted.neighbors_distance[k]
                                     <= sorted.neighbors_distance[k + 1]
                     /\ \A k \in segment(i) :
                           Cardinality({ m \in segment(i) :
                                           C22_Pair(sorted, m) = C22_Pair(unsorted, k) })
                             = Cardinality({ m \in segment(i) :
                                               C22_Pair(unsorted, m) = C22_Pair(unsorted, k) })

C22_SortPermutesWithinSegments == [][C22_Step]_vars

\* The sorted search of the point (0, 1) with radius 1 in the dataset
\* ((0, 0), (0, 1)) returned point 1 at distance 0 before point 0 at
\* squared distance 1; the hash table lists point 0 first.
C22_Witness ==
    /\ C21_RadiusSearchReturned
    /\ last_call.args.sort
    /\ dataset_points_.data = << <<0, 0>>, <<0, 1>> >>
    /\ hash_table_index_.data = <<0, 1>>
    /\ last_call.args.query_points.data = << <<0, 1>> >>
    /\ last_call.args.radius = 1
    /\ last_call.result.neighbors_index = <<1, 0>>
    /\ last_call.result.neighbors_distance = <<0, 1>>

\* The last call was a SearchHybrid call that returned.
C23_HybridSearchReturned ==
    /\ last_call.fn = "SearchHybrid"
    /\ last_call.outcome = "ok"

(***************************************************************************)
(* C23: every SearchHybrid(query, radius, max_knn = k) call that returns,  *)
(* returns index and distance arrays of shape (num_queries, k) and a       *)
(* neighbour_counts vector of length num_queries with, for every query i,  *)
(* neighbour_counts[i] <= k and neighbour_counts[i] = min(k, number of     *)
(* dataset points within radius of query i); the slots from position      *)
(* neighbour_counts[i] on hold the padding, index -1 and distance 0, and   *)
(* the slots before it hold points within radius.                          *)
(***************************************************************************)
C23_HybridCapped ==
    C23_HybridSearchReturned
        => LET queries == last_call.args.query_points.data
               radius == last_call.args.radius
               k == last_call.args.max_knn
               num_queries == last_call.args.query_points.shape[1]
               points == dataset_points_.data
               indices == last_call.result.neighbors_index
               distances == last_call.result.neighbors_distance
               counts == last_call.result.neighbour_counts
               near(i) == { j \in 1..Len(points) :
                              Distance(points[j], queries[i]) <= radius * radius }
           IN  /\ Len(indices) = num_queries
               /\ Len(distances) = num_queries
               /\ Len(counts) = num_queries
               /\ \A i \in 1..num_queries :
                     /\ Len(indices[i]) = k
                     /\ Len(distances[i]) = k
                     /\ counts[i] <= k
                     /\ counts[i] = (IF Cardinality(near(i)) < k
                                     THEN Cardinality(near(i)) ELSE k)
                     /\ \A slot \in 1..k :
                           IF slot > counts[i]
                           THEN indices[i][slot] = -1 /\ distances[i][slot] = 0
                           ELSE indices[i][slot] + 1 \in near(i)

\* max_knn = 1 on a dataset that holds the point (0, 0) twice: the query
\* (0, 0) has two points within radius 1 and reports one, the query (1, 1)
\* has none and its slot holds the padding.
C23_Witness ==
    /\ C23_HybridSearchReturned
    /\ dataset_points_.data = << <<0, 0>>, <<0, 0>> >>
    /\ last_call.args.query_points.data = << <<0, 0>>, <<1, 1>> >>
    /\ last_call.args.radius = 1
    /\ last_call.args.max_knn = 1
    /\ last_call.result.neighbour_counts = <<1, 0>>
    /\ last_call.result.neighbors_index = << <<0>>, <<-1>> >>

\* The errors that report an invalid argument of SetTensorData or of a
\* search.
C24_InvalidArgumentErrors ==
    {"dataset_points should be GPU Tensor.", "radius should be positive.",
     "index has no dataset", "wrong dtype", "incompatible shape", "wrong device",
     "Unsupported data type."}

C24_Step ==
    (cu_build = "NoCUDA" /\ last_call' # last_call)
        => /\ last_call'.fn \in {"SetTensorData", "SearchRadius", "SearchHybrid"}
           /\ last_call'.outcome = "error"
           /\ last_call'.fn = "SetTensorData" =>
                 last_call'.error = "FixedRadiusIndex::SetTensorData BUILD_CUDA_MODULE is OFF. Please compile Open3d with BUILD_CUDA_MODULE=ON."
           /\ last_call'.fn = "SearchRadius" =>
                 last_call'.error = "FixedRadiusIndex::SearchRadius BUILD_CUDA_MODULE is OFF. Please compile Open3d with BUILD_CUDA_MODULE=ON."
           /\ last_call'.fn = "SearchHybrid" =>
                 last_call'.error = "FixedRadiusIndex::SearchHybrid BUILD_CUDA_MODULE is OFF. Please compile Open3d with BUILD_CUDA_MODULE=ON."
           /\ last_call'.error \notin C24_InvalidArgumentErrors
           /\ last_call'.result = NoResult
           /\ last_call'.kernel_calls = <<>>
           /\ index_fields' = index_fields
           /\ built' = built

(***************************************************************************)
(* C24: in a build without the CUDA module, SetTensorData, SearchRadius    *)
(* and SearchHybrid raise the 'BUILD_CUDA_MODULE is OFF' error for every   *)
(* argument combination; the call returns nothing, invokes no device       *)
(* routine and leaves every member of the index as it was, and the error   *)
(* is none of the invalid-argument errors.                                 *)
(***************************************************************************)
C24_ModuleOffRaises == [][C24_Step]_vars

\* SetTensorData was called with a CUDA dataset and radius 1, which a
\* build with the CUDA module accepts, and raised; the index holds no
\* dataset.
C24_Witness ==
    /\ cu_build = "NoCUDA"
    /\ last_call.fn = "SetTensorData"
    /\ last_call.args.dataset_points.device = CUDA0
    /\ last_call.args.dataset_points.dtype = "Float32"
    /\ last_call.args.radius = 1
    /\ last_call.outcome = "error"
    /\ dataset_points_ = NullTensor
    /\ ~built

C25_Step ==
    (lg_last' # lg_last /\ lg_last'.fn = "VError")
        => LET site == lg_last'.site
               text == "[Open3D Error] (" \o site.function_name \o ") "
                          \o site.file_name \o ":" \o ToString(site.line_number)
                          \o ": " \o VFormat(lg_last'.format, lg_last'.args) \o "\n"
           IN  /\ lg_last'.outcome = "throws"
               /\ lg_last'.what = (IF lg_platform = "Posix"
                                   THEN "<ESC>[1;31m" \o text \o "<ESC>[0;m"
                                   ELSE text)
               /\ lg_last'.printed = <<>>
               /\ verbosity_level_' = verbosity_level_
               /\ print_fcn_' = print_fcn_

(***************************************************************************)
(* C25: Logger::VError never returns to its caller: for every verbosity    *)
(* level, levels below Warning included, and every installed print         *)
(* function it throws, and the diagnostic it throws is                     *)
(* "[Open3D Error] (function) file:line: message" with the formatted       *)
(* message, in red where the platform has colours.                         *)
(***************************************************************************)
C25_VErrorAlwaysThrows == [][C25_Step]_vars

\* With the verbosity level Error and a custom print function installed,
\* the LogError of SetTensorData threw.
C25_Witness ==
    /\ verbosity_level_ = "Error"
    /\ print_fcn_ = "custom"
    /\ lg_platform = "Posix"
    /\ lg_last.fn = "VError"
    /\ lg_last.outcome = "throws"
    /\ lg_last.what = "<ESC>[1;31m[Open3D Error] (SetTensorData) FixedRadiusIndex.cpp:57: radius should be positive.\n<ESC>[0;m"

\* The boolean ops of the two kernels, and the truth value each one gives
\* on the elements a and b (b is not read by LogicalNot).
C26_BooleanOps ==
    {"LogicalNot", "LogicalAnd", "LogicalOr", "LogicalXor",
     "Gt", "Lt", "Ge", "Le", "Eq", "Ne"}

C26_Truth(op_code, a, b) ==
    \/ op_code = "LogicalNot" /\ a = 0
    \/ op_code = "LogicalAnd" /\ a # 0 /\ b # 0
    \/ op_code = "LogicalOr" /\ (a # 0 \/ b # 0)
    \/ op_code = "LogicalXor" /\ ((a # 0) # (b # 0))
    \/ op_code \in C17_ComparisonOps /\ C17_Compares(op_code, a, b)

\* A boolean op was called on inputs of one dtype that the dispatch
\* accepts and of shapes that broadcast to the shape of dst.
C26_BooleanCall ==
    /\ ew_call.fn \in {"UnaryEWCPU", "BinaryEWCPU"}
    /\ ew_call.op_code \in C26_BooleanOps
    /\ ew_call.fn = "UnaryEWCPU" <=> ew_call.op_code = "LogicalNot"
    /\ DispatchWithBoolOk(ew_lhs.dtype)
    /\ CanBeBrocastedToShape(ew_lhs.shape, ew_dst.shape)
    /\ ew_call.fn = "BinaryEWCPU"
          => /\ ew_rhs.dtype = ew_lhs.dtype
             /\ CanBeBrocastedToShape(ew_rhs.shape, ew_dst.shape)

\* Every element of dst holds the truth value of the op, as true or false
\* of the dtype of dst (1.0 is two halves).
C26_TruthWritten ==
    \A w \in 1..NumElements(ew_dst.shape) :
        LET a == ew_lhs.data[Indexer_GetInputPtr(ew_lhs, ew_dst, w - 1)]
            b == IF ew_call.fn = "BinaryEWCPU"
                 THEN ew_rhs.data[Indexer_GetInputPtr(ew_rhs, ew_dst, w - 1)]
                 ELSE 0
            true == IF ew_dst.dtype \in {"Float32", "Float64"} THEN 2 ELSE 1
        IN  ew_dst.data[w] = (IF C26_Truth(ew_call.op_code, a, b) THEN true ELSE 0)

(***************************************************************************)
(* C26: for the boolean ops (LogicalNot of UnaryEWCPU; LogicalAnd, Or, Xor *)
(* and the six comparisons of BinaryEWCPU) the dtype of dst is the dtype   *)
(* of the inputs or Bool: with the dtype of the inputs the op runs under   *)
(* ALL_SAME and writes the truth value converted to that dtype, otherwise  *)
(* with Bool it runs under INPUT_SAME_OUTPUT_BOOL and writes the truth     *)
(* value, and with any other dtype the call raises and launches no kernel. *)
(***************************************************************************)
C26_BooleanOpOutputDtype ==
    C26_BooleanCall
        => IF ew_dst.dtype = ew_lhs.dtype
           THEN /\ ew_call.outcome = "ok"
                /\ ew_call.policy = "ALL_SAME"
                /\ ew_call.launches
                      = <<Launch(ew_call.op_code, NumElements(ew_dst.shape))>>
                /\ C26_TruthWritten
           ELSE IF ew_dst.dtype = "Bool"
           THEN /\ ew_call.outcome = "ok"
                /\ ew_call.policy = "INPUT_SAME_OUTPUT_BOOL"
                /\ ew_call.launches
                      = <<Launch(ew_call.op_code, NumElements(ew_dst.shape))>>
                /\ C26_TruthWritten
           ELSE /\ ew_call.outcome = "error"
                /\ ew_call.error = "Boolean op's output type must be boolean or the same type as the input."
                /\ ew_call.launches = <<>>
                /\ ew_dst = EWOutput(ew_dst.dtype, ew_dst.shape, ew_dst.contiguous)

\* LogicalAnd of the Float32 tensors (-1.5, 0) and (0.5, 0.5) into a
\* Float32 dst gave (1.0, 0.0).
C26_Witness ==
    /\ ew_call.fn = "BinaryEWCPU"
    /\ ew_call.op_code = "LogicalAnd"
    /\ ew_call.policy = "ALL_SAME"
    /\ ew_lhs = EWTensor("Float32", <<2>>, TRUE, <<-3, 0>>)
    /\ ew_rhs = EWTensor("Float32", <<2>>, TRUE, <<1, 1>>)
    /\ ew_dst = EWTensor("Float32", <<2>>, TRUE, <<2, 0>>)

\* The formats with a tensor-native reader.
C27_TensorNativeFormats == {"xyzi", "ply", "pts"}

C27_Step ==
    (io_last' # io_last)
        => LET call == io_last'
               native == call.format \in C27_TensorNativeFormats
               flagged == call.params.remove_nan_points
                            \/ call.params.remove_infinite_points
           IN  /\ call.params.format # "auto" => call.format = call.params.format
               /\ call.params.format = "auto"
                     => call.format = GetFileExtensionInLowerCase(call.filename)
               /\ native
                     => /\ call.readers \in {<<"ReadPointCloudFromXYZI">>,
                                              <<"ReadPointCloudFromPLY">>,
                                              <<"ReadPointCloudFromPTS">>}
                        /\ call.pointcloud.reader = call.readers[1]
               /\ ~native
                     => /\ call.readers = <<"open3d::io::ReadPointCloud">>
                        /\ call.outcome = "returns"
                        /\ call.value => call.pointcloud = FromLegacyPointCloud("Float64")
                        /\ ~call.value =>
                              call.pointcloud = (IF call.fn = "ReadPointCloud"
                                                 THEN io_pointcloud ELSE EmptyPointCloud)
               /\ (native /\ flagged)
                     => /\ call.outcome = "throws"
                        /\ call.error = "remove_nan_points and remove_infinite_points options are unimplemented."
                        /\ Len(call.readers) = 1
               /\ (native /\ ~flagged) => call.outcome = "returns"
               /\ call.fn = "CreatePointCloudFromFile"
                     => /\ call.params.remove_nan_points
                        /\ call.params.remove_infinite_points
                        /\ native => call.outcome = "throws"

(***************************************************************************)
(* C27: t::io::ReadPointCloud resolves the format "auto" to the lower-     *)
(* cased file extension, runs the tensor-native reader exactly for the     *)
(* formats xyzi, ply and pts and the legacy reader, whose result it        *)
(* converts to Float64, for every other format; for a tensor-native format *)
(* with remove_nan_points or remove_infinite_points set it does not        *)
(* return: it raises the 'unimplemented' error after the reader has run.   *)
(* CreatePointCloudFromFile sets both options in every call, so it raises  *)
(* for every tensor-native format.                                         *)
(***************************************************************************)
C27_ReadPointCloudDispatch == [][C27_Step]_vars

\* CreatePointCloudFromFile("a.PLY", "auto") ran ReadPointCloudFromPLY and
\* then raised.
C27_Witness ==
    /\ io_last.fn = "CreatePointCloudFromFile"
    /\ io_last.filename = <<"a", ".", "P", "L", "Y">>
    /\ io_last.params.format = "auto"
    /\ io_last.format = "ply"
    /\ io_last.readers = <<"ReadPointCloudFromPLY">>
    /\ io_last.outcome = "throws"

\* A SetTensorData call has raised in this step.
C28_SetTensorDataRaised ==
    /\ last_call'.fn = "SetTensorData"
    /\ last_call'.outcome = "error"

C28_Step ==
    C28_SetTensorDataRaised
        => /\ index_fields' = index_fields
           /\ Built' = Built

(***************************************************************************)
(* C28: SetTensorData is atomic with respect to failure: whenever a call   *)
(* raises (wrong device, non-positive radius, or a dataset dtype the float *)
(* dispatch rejects), dataset_points_, points_row_splits_,                 *)
(* hash_table_splits_, hash_table_cell_splits_ and hash_table_index_ are   *)
(* as they were before the call, so an Unbuilt index stays Unbuilt and a   *)
(* Built index keeps its table.                                            *)
(***************************************************************************)
C28_FailureAtomic == [][C28_Step]_vars

C28_PreconditionStep ==
    (C28_SetTensorDataRaised /\ last_call'.error # "Unsupported data type.")
        => /\ index_fields' = index_fields
           /\ Built' = Built

\* The part of C28 the code keeps: a call that fails the device check or
\* the radius check leaves the five members alone.
C28_PreconditionFailureAtomic == [][C28_PreconditionStep]_vars

\* dst does not overlap the inputs of the launch.
C29_DstApartFromInputs ==
    \A k \in DOMAIN wk_call.inputs :
        ViewAddresses(wk_call.dst) \cap ViewAddresses(wk_call.inputs[k]) = {}

(***************************************************************************)
(* C29: in every elementwise launch on CPU (LaunchUnaryEWKernel,           *)
(* LaunchBinaryEWKernel, the scalar fill of CopyCPU) whose dst does not    *)
(* overlap the inputs, distinct workloads write distinct elements of dst   *)
(* and read only elements of the inputs, so no two team members write the  *)
(* same location, and however the members interleave, dst holds after the  *)
(* launch what running the workloads 0..n-1 one after the other gives.     *)
(***************************************************************************)
C29_LaunchDeterministic ==
    (wk_pc \in {"forked", "joined"} /\ C29_DstApartFromInputs)
        => /\ \A w1 \in wk_writes, w2 \in wk_writes :
                 /\ w1.workload # w2.workload => w1.address # w2.address
                 /\ w1.thread # w2.thread => w1.address # w2.address
           /\ \A w \in wk_writes :
                 /\ w.address \in ViewAddresses(wk_call.dst)
                 /\ w.address = wk_call.dst.offset + w.workload
           /\ \A r \in wk_reads :
                 \E k \in DOMAIN wk_call.inputs :
                    r.address \in ViewAddresses(wk_call.inputs[k])
           /\ wk_pc = "joined"
                 => /\ wk_mem = SerialRun(wk_call, wk_call.mem, 0)
                    /\ { w.workload : w \in wk_writes } = 0..(wk_call.n - 1)

\* A binary launch of three workloads shared by two team members, with
\* dst apart from the inputs, has joined and has changed the buffer.
C29_Witness ==
    /\ wk_pc = "joined"
    /\ wk_call.launcher = "LaunchBinaryEWKernel"
    /\ wk_call.n = 3
    /\ wk_call.team = 2
    /\ C29_DstApartFromInputs
    /\ wk_mem # wk_call.mem

\* What holds of the bar after every call.
C30_Inv ==
    /\ ~SizeLess(ToSize(pb_bar.resolution_ - 1), pb_bar.progress_pixel_)
    /\ ~SizeLess(ToSize(pb_bar.resolution_ - 1),
                 SizeSub(ToSize(pb_bar.resolution_ - 1), pb_bar.progress_pixel_))
    /\ pb_last.out.printed =>
          ~SizeLess(ToSize(pb_bar.resolution_),
                    SizeAdd(pb_last.out.padding, pb_last.out.bar_width))
    /\ ~pb_last.out.divided_by_zero
    /\ pb_bar.expected_count_ = Size(0)
          => /\ pb_last.out.divisions = 0
             /\ pb_bar.active_ => (pb_last.out.printed /\ pb_last.out.percent = 100)
    /\ pb_last.fn \in {"Reset", "ConsoleProgressBar"}
          => /\ pb_bar.current_count_ = Size(0)
             /\ pb_bar.progress_pixel_ = Size(0)

\* What holds of every call but Reset.
C30_Step ==
    (pb_last'.fn # "Reset")
        => /\ ~SizeLess(pb_bar'.progress_pixel_, pb_bar.progress_pixel_)
           /\ ~pb_bar.active_
                 => /\ pb_bar' = [pb_bar EXCEPT !.current_count_ = pb_bar'.current_count_]
                    /\ ~pb_last'.out.printed
                    /\ pb_last'.out.divisions = 0

(***************************************************************************)
(* C30: after any sequence of Reset, operator++ and SetCurrentCount calls  *)
(* on a ConsoleProgressBar: Reset leaves current_count_ = 0 (the start     *)
(* value -1 wraps to 0 in the first increment) and progress_pixel_ = 0; no *)
(* division by expected_count_ is evaluated when expected_count_ = 0 (an   *)
(* active bar then reports 100%); progress_pixel_ does not decrease        *)
(* between two Resets and is at most resolution_ - 1, so the padding width *)
(* resolution_ - 1 - progress_pixel_ is not negative; an inactive bar      *)
(* changes nothing but current_count_.                                     *)
(***************************************************************************)
C30_ProgressBarInvariants == []C30_Inv /\ [][C30_Step]_vars

\* An active bar has advanced to its last pixel in an operator++ call.
C30_Witness ==
    /\ pb_bar.active_
    /\ pb_bar.resolution_ = 40
    /\ pb_bar.progress_pixel_ = Size(39)
    /\ pb_last.fn = "operator++"
    /\ pb_last.out.printed
    /\ pb_last.out.padding = Size(0)

=============================================================================
